---------------------------- MODULE Spec2Model ----------------------------
(***************************************************************************)
(* CheckLeakAutoVar (lib/checkleakautovar.cpp): the per-function forward   *)
(* analysis of allocation state of local variables.                        *)
(*                                                                         *)
(* A function body is a block: a sequence of statements.  A statement is a *)
(* record with a kind k; an `if` holds its condition, its then-block and   *)
(* (when he is TRUE) its else-block.  A token is named by its path in the  *)
(* body: <<i>> is statement i of the function block, <<i, 1, j>> is        *)
(* statement j of the then-block of statement i, <<i, 2, j>> of its        *)
(* else-block; the closing brace of a block of n statements is the token   *)
(* at index n + 1 of that block.                                           *)
(***************************************************************************)
EXTENDS Integers, Sequences, FiniteSets, TLC

VARIABLES
    scopes,     \* symbolDatabase->functionScopes: the function bodies, in order
    fn,         \* index of the function scope check() is at
    stack,      \* the active checkScope invocations, innermost last
    diags,      \* the diagnostics reported so far, in order
    gotoSeen,   \* history: the variables that were tracked when a goto was processed
    thrown,     \* an InternalError left check()
    checkLibrary \* mSettings->checkLibrary (--check-library)

vars == <<scopes, fn, stack, diags, gotoSeen, thrown, checkLibrary>>

-----------------------------------------------------------------------------
(* Bounds of the model *)

\* longest function-level block
MaxLen == 3
\* longest then- or else-block
MaxInner == 2
\* the ceiling of nested checkScope invocations: 1000 in the source (300 or 600
\* in some builds), here as low as the nesting of the analysed bodies
recursiveLimit == 4

(* Program constants *)

\* hard-coded allocation types
NEW_ARRAY == -2
NEW_SINGLE == -1

\* variable ids of the locals of a function, and library allocation groups
VarIds == {1, 2}
Families == {1, 2}

-----------------------------------------------------------------------------
(* VarInfo and its AllocInfo records *)


NoTok == <<>>

AllocInfo(type, status, allocTok) ==
    [type |-> type, status |-> status, allocTok |-> allocTok, reallocedFromType |-> -1]

managed(ai) == ai.status \in {"DEALLOC", "OWNED", "REALLOC"}

EmptyVarInfo ==
    [alloctype |-> << >>, possibleUsage |-> << >>, conditionalAlloc |-> {}, referenced |-> {}]

\* a finite map without key v
Without(m, v) == [x \in (DOMAIN m) \ {v} |-> m[x]]
\* m with key v bound to val
With(m, v, val) == [x \in (DOMAIN m) \cup {v} |-> IF x = v THEN val ELSE m[x]]
\* an insert of a range that overwrites the keys already present
InsertAll_overwrite(m, src) ==
    [x \in (DOMAIN m) \cup (DOMAIN src) |-> IF x \in DOMAIN src THEN src[x] ELSE m[x]]

\* std::map::insert of a range: keys already present keep their value
InsertAll(m, src) == [x \in (DOMAIN m) \cup (DOMAIN src) |-> IF x \in DOMAIN m THEN m[x] ELSE src[x]]

Has(vi, v) == v \in DOMAIN vi.alloctype

erase(vi, v) ==
    [alloctype |-> Without(vi.alloctype, v),
     possibleUsage |-> Without(vi.possibleUsage, v),
     conditionalAlloc |-> vi.conditionalAlloc \ {v},
     referenced |-> vi.referenced \ {v}]

clear(vi) == EmptyVarInfo

\* alloctype[varid] creates a default record when there is none
reallocToAlloc(vi, v) ==
    LET at0 == IF Has(vi, v) THEN vi.alloctype ELSE With(vi.alloctype, v, AllocInfo(0, "NOALLOC", NoTok))
        from == at0[v].reallocedFromType
    IN  IF from >= 0 /\ from \in DOMAIN at0 /\ at0[from].status = "REALLOC"
        THEN [vi EXCEPT !.alloctype = [at0 EXCEPT ![from].status = "ALLOC"]]
        ELSE [vi EXCEPT !.alloctype = at0]

-----------------------------------------------------------------------------
(* The program representation (external: tokens, AST, symbol database) *)

\* the block at a block path: <<>> is the function block, bp \o <<i, 1>> the
\* then-block and bp \o <<i, 2>> the else-block of statement i of block bp
RECURSIVE BlockAt(_, _)
BlockAt(blk, bp) ==
    IF bp = <<>> THEN blk
    ELSE LET s == blk[bp[1]]
         IN  BlockAt(IF bp[2] = 1 THEN s.th ELSE s.el, SubSeq(bp, 3, Len(bp)))


\* the blocks of blk, at block path bp, that hold a declaration `T *v;`
RECURSIVE DeclPaths(_, _, _)
DeclPaths(blk, bp, v) ==
    UNION {IF blk[i].k = "decl" /\ blk[i].v = v THEN {bp}
           ELSE IF blk[i].k = "if"
           THEN DeclPaths(blk[i].th, bp \o <<i, 1>>, v) \cup DeclPaths(blk[i].el, bp \o <<i, 2>>, v)
           ELSE {} : i \in 1..Len(blk)}

\* var->scope(): the block a variable is declared in; a variable without a
\* declaration statement is a local of the function block
DeclBlock(v) ==
    LET S == DeclPaths(scopes[fn], <<>>, v)
    IN  IF S = {} THEN <<>> ELSE CHOOSE bp \in S : TRUE

\* values of a set of integers in increasing order (iteration order of std::map)
RECURSIVE Ascending(_)
Ascending(S) ==
    IF S = {} THEN <<>>
    ELSE LET m == CHOOSE x \in S : \A y \in S : x <= y
         IN  <<m>> \o Ascending(S \ {m})

-----------------------------------------------------------------------------
(* Reporting *)

Diag(kind, v, tok, from) == [kind |-> kind, var |-> v, tok |-> tok, from |-> from]

leakError(tok, v) == Diag("Leak", v, tok, NoTok)
mismatchError(deallocTok, allocTok, v) == Diag("Mismatch", v, deallocTok, allocTok)
doubleFreeError(tok, prevFreeTok, v) == Diag("DoubleFree", v, tok, prevFreeTok)
deallocReturnError(tok, deallocTok, v) == Diag("DeallocatedReturn", v, tok, deallocTok)

\* ftok->function() && ftok->function()->hasBody() of the call at token tok
hasBody(tok) ==
    BlockAt(scopes[fn], SubSeq(tok, 1, Len(tok) - 1))[tok[Len(tok)]].hasBody

\* configurationInfo that reports whatever the setting and the usage are
configurationInfo_always(tok, functionUsage, v) ==
    <<Diag("ConfigurationInfo", v, tok, NoTok)>>

\* functionUsage: the function token recorded as possible usage and its kind
\* (USED or NORET); the called function is undeclared or has a body
configurationInfo(tok, functionUsage, v) ==
    IF checkLibrary /\ functionUsage.usage = "USED" /\ ~hasBody(functionUsage.tok)
    THEN <<Diag("ConfigurationInfo", v, tok, NoTok)>>
    ELSE <<>>

\* the result of a handler: the new VarInfo and the diagnostics it reported
Out(vi, ds) == [vi |-> vi, ds |-> ds]

leakIfAllocated(tok, v, vi) ==
    IF Has(vi, v) /\ vi.alloctype[v].status = "ALLOC"
    THEN IF v \notin DOMAIN vi.possibleUsage
         THEN <<leakError(tok, v)>>
         ELSE configurationInfo(tok, vi.possibleUsage[v], v)
    ELSE <<>>

\* every tracked variable gets the call as its possible usage
possibleUsageAll(vi, functionUsage) ==
    [vi EXCEPT !.possibleUsage = [v \in DOMAIN vi.alloctype |-> functionUsage]]

-----------------------------------------------------------------------------
(* Allocation and deallocation events *)

\* changeAllocStatusIfRealloc that gives an untracked argument a record too
changeAllocStatusIfRealloc_createsArg(vi, f, fTok, v, arg) ==
    LET at1 == With(vi.alloctype, arg,
                    [(IF Has(vi, arg) THEN vi.alloctype[arg] ELSE AllocInfo(0, "NOALLOC", NoTok))
                        EXCEPT !.status = "REALLOC", !.allocTok = fTok])
        retAlloc == [AllocInfo(f, "ALLOC", fTok) EXCEPT !.reallocedFromType = arg]
    IN  Out([vi EXCEPT !.alloctype = With(at1, v, retAlloc)],
            IF Has(vi, arg) /\ vi.alloctype[arg].type # 0 /\ vi.alloctype[arg].type # f
            THEN <<mismatchError(fTok, vi.alloctype[arg].allocTok, arg)>> ELSE <<>>)

\* v = realloc_like(arg): fTok is the call, f the group of the realloc function
changeAllocStatusIfRealloc(vi, f, fTok, v, arg) ==
    LET hasArg == Has(vi, arg)
        argAlloc == vi.alloctype[arg]
        ds == IF hasArg /\ argAlloc.type # 0 /\ argAlloc.type # f
              THEN <<mismatchError(fTok, argAlloc.allocTok, arg)>>
              ELSE <<>>
        at1 == IF hasArg
               THEN [vi.alloctype EXCEPT ![arg].status = "REALLOC", ![arg].allocTok = fTok]
               ELSE vi.alloctype
        old == IF v \in DOMAIN at1 THEN at1[v] ELSE AllocInfo(0, "NOALLOC", NoTok)
        retAlloc == [old EXCEPT !.type = f, !.status = "ALLOC", !.allocTok = fTok,
                                !.reallocedFromType = arg]
    IN  Out([vi EXCEPT !.alloctype = With(at1, v, retAlloc)], ds)

\* changeAllocStatus that keeps the record of a mismatching deallocation
changeAllocStatus_keepOnMismatch(vi, allocation, tok, v) ==
    IF Has(vi, v)
    THEN LET var == vi.alloctype[v]
         IN  IF allocation.status = "NOALLOC"
             THEN Out([vi EXCEPT !.possibleUsage =
                          With(vi.possibleUsage, v,
                               [tok |-> tok, usage |-> "USED"])],
                      <<>>)
             ELSE IF managed(var)
             THEN Out([vi EXCEPT !.alloctype[v].status = allocation.status],
                      <<doubleFreeError(tok, var.allocTok, v)>>)
             ELSE IF var.type # allocation.type /\ var.type # 0
             THEN Out(vi, <<mismatchError(tok, var.allocTok, v)>>)
             ELSE Out([vi EXCEPT !.alloctype[v].status = allocation.status,
                                 !.alloctype[v].type = allocation.type,
                                 !.alloctype[v].allocTok = allocation.allocTok], <<>>)
    ELSE IF allocation.status # "NOALLOC" /\ allocation.status # "OWNED"
    THEN Out([vi EXCEPT !.alloctype = With(vi.alloctype, v, AllocInfo(allocation.type, "DEALLOC", tok))],
             <<>>)
    ELSE Out(vi, <<>>)

\* changeAllocStatus that ignores a variable without a record
changeAllocStatus_untrackedIgnored(vi, allocation, tok, v) ==
    IF Has(vi, v)
    THEN LET var == vi.alloctype[v]
         IN  IF allocation.status = "NOALLOC"
             THEN Out([vi EXCEPT !.possibleUsage =
                          With(vi.possibleUsage, v,
                               [tok |-> tok, usage |-> "USED"])],
                      <<>>)
             ELSE IF managed(var)
             THEN Out([vi EXCEPT !.alloctype[v].status = allocation.status],
                      <<doubleFreeError(tok, var.allocTok, v)>>)
             ELSE IF var.type # allocation.type /\ var.type # 0
             THEN Out(erase(vi, v), <<mismatchError(tok, var.allocTok, v)>>)
             ELSE Out([vi EXCEPT !.alloctype[v].status = allocation.status,
                                 !.alloctype[v].type = allocation.type,
                                 !.alloctype[v].allocTok = allocation.allocTok], <<>>)
    ELSE Out(vi, <<>>)

\* changeAllocStatus that tests the families before the status
changeAllocStatus_mismatchFirst(vi, allocation, tok, v) ==
    IF Has(vi, v)
    THEN LET var == vi.alloctype[v]
         IN  IF allocation.status = "NOALLOC"
             THEN Out([vi EXCEPT !.possibleUsage =
                          With(vi.possibleUsage, v,
                               [tok |-> tok, usage |-> "USED"])],
                      <<>>)
             ELSE IF var.type # allocation.type /\ var.type # 0
             THEN Out(erase(vi, v), <<mismatchError(tok, var.allocTok, v)>>)
             ELSE IF managed(var)
             THEN Out([vi EXCEPT !.alloctype[v].status = allocation.status],
                      <<doubleFreeError(tok, var.allocTok, v)>>)
             ELSE Out([vi EXCEPT !.alloctype[v].status = allocation.status,
                                 !.alloctype[v].type = allocation.type,
                                 !.alloctype[v].allocTok = allocation.allocTok], <<>>)
    ELSE IF allocation.status # "NOALLOC" /\ allocation.status # "OWNED"
    THEN Out([vi EXCEPT !.alloctype = With(vi.alloctype, v, AllocInfo(allocation.type, "DEALLOC", tok))],
             <<>>)
    ELSE Out(vi, <<>>)

\* changeAllocStatus whose new record forgets the family of the deallocator
changeAllocStatus_noFamily(vi, allocation, tok, v) ==
    IF Has(vi, v)
    THEN LET var == vi.alloctype[v]
         IN  IF allocation.status = "NOALLOC"
             THEN Out([vi EXCEPT !.possibleUsage =
                          With(vi.possibleUsage, v,
                               [tok |-> tok, usage |-> "USED"])],
                      <<>>)
             ELSE IF managed(var)
             THEN Out([vi EXCEPT !.alloctype[v].status = allocation.status],
                      <<doubleFreeError(tok, var.allocTok, v)>>)
             ELSE IF var.type # allocation.type /\ var.type # 0
             THEN Out(erase(vi, v), <<mismatchError(tok, var.allocTok, v)>>)
             ELSE Out([vi EXCEPT !.alloctype[v].status = allocation.status,
                                 !.alloctype[v].type = allocation.type,
                                 !.alloctype[v].allocTok = allocation.allocTok], <<>>)
    ELSE IF allocation.status # "NOALLOC" /\ allocation.status # "OWNED"
    THEN Out([vi EXCEPT !.alloctype = With(vi.alloctype, v, AllocInfo(0, "DEALLOC", tok))],
             <<>>)
    ELSE Out(vi, <<>>)

\* changeAllocStatus that installs a record for an untracked variable taken
\* by a smart pointer
changeAllocStatus_ownedInstalls(vi, allocation, tok, v) ==
    IF Has(vi, v)
    THEN LET var == vi.alloctype[v]
         IN  IF allocation.status = "NOALLOC"
             THEN Out([vi EXCEPT !.possibleUsage =
                          With(vi.possibleUsage, v,
                               [tok |-> tok, usage |-> "USED"])],
                      <<>>)
             ELSE IF managed(var)
             THEN Out([vi EXCEPT !.alloctype[v].status = allocation.status],
                      <<doubleFreeError(tok, var.allocTok, v)>>)
             ELSE IF var.type # allocation.type /\ var.type # 0
             THEN Out(erase(vi, v), <<mismatchError(tok, var.allocTok, v)>>)
             ELSE Out([vi EXCEPT !.alloctype[v].status = allocation.status,
                                 !.alloctype[v].type = allocation.type,
                                 !.alloctype[v].allocTok = allocation.allocTok], <<>>)
    ELSE IF allocation.status # "NOALLOC"
    THEN Out([vi EXCEPT !.alloctype = With(vi.alloctype, v,
                 AllocInfo(allocation.type,
                           IF allocation.status = "OWNED" THEN "OWNED" ELSE "DEALLOC", tok))],
             <<>>)
    ELSE Out(vi, <<>>)

\* changeAllocStatus that records no possible usage
changeAllocStatus_noUsage(vi, allocation, tok, v) ==
    IF Has(vi, v)
    THEN LET var == vi.alloctype[v]
         IN  IF allocation.status = "NOALLOC"
             THEN Out(vi, <<>>)
             ELSE IF managed(var)
             THEN Out([vi EXCEPT !.alloctype[v].status = allocation.status],
                      <<doubleFreeError(tok, var.allocTok, v)>>)
             ELSE IF var.type # allocation.type /\ var.type # 0
             THEN Out(erase(vi, v), <<mismatchError(tok, var.allocTok, v)>>)
             ELSE Out([vi EXCEPT !.alloctype[v].status = allocation.status,
                                 !.alloctype[v].type = allocation.type,
                                 !.alloctype[v].allocTok = allocation.allocTok], <<>>)
    ELSE IF allocation.status # "NOALLOC" /\ allocation.status # "OWNED"
    THEN Out([vi EXCEPT !.alloctype = With(vi.alloctype, v, AllocInfo(allocation.type, "DEALLOC", tok))],
             <<>>)
    ELSE Out(vi, <<>>)

\* changeAllocStatus that forgets every record at a mismatch
changeAllocStatus_mismatchClears(vi, allocation, tok, v) ==
    IF Has(vi, v)
    THEN LET var == vi.alloctype[v]
         IN  IF allocation.status = "NOALLOC"
             THEN Out([vi EXCEPT !.possibleUsage =
                          With(vi.possibleUsage, v,
                               [tok |-> tok, usage |-> "USED"])],
                      <<>>)
             ELSE IF managed(var)
             THEN Out([vi EXCEPT !.alloctype[v].status = allocation.status],
                      <<doubleFreeError(tok, var.allocTok, v)>>)
             ELSE IF var.type # allocation.type /\ var.type # 0
             THEN Out(clear(vi), <<mismatchError(tok, var.allocTok, v)>>)
             ELSE Out([vi EXCEPT !.alloctype[v].status = allocation.status,
                                 !.alloctype[v].type = allocation.type,
                                 !.alloctype[v].allocTok = allocation.allocTok], <<>>)
    ELSE IF allocation.status # "NOALLOC" /\ allocation.status # "OWNED"
    THEN Out([vi EXCEPT !.alloctype = With(vi.alloctype, v, AllocInfo(allocation.type, "DEALLOC", tok))],
             <<>>)
    ELSE Out(vi, <<>>)

\* allocation: the family, the status (DEALLOC or OWNED) and the token of the
\* deallocator; tok is the reported token, v the variable of the argument
changeAllocStatus(vi, allocation, tok, v) ==
    IF Has(vi, v)
    THEN LET var == vi.alloctype[v]
         IN  IF allocation.status = "NOALLOC"
             THEN Out([vi EXCEPT !.possibleUsage =
                          With(vi.possibleUsage, v,
                               [tok |-> tok, usage |-> "USED"])],
                      <<>>)
             ELSE IF managed(var)
             THEN Out([vi EXCEPT !.alloctype[v].status = allocation.status],
                      <<doubleFreeError(tok, var.allocTok, v)>>)
             ELSE IF var.type # allocation.type /\ var.type # 0
             THEN Out(erase(vi, v), <<mismatchError(tok, var.allocTok, v)>>)
             ELSE Out([vi EXCEPT !.alloctype[v].status = allocation.status,
                                 !.alloctype[v].type = allocation.type,
                                 !.alloctype[v].allocTok = allocation.allocTok], <<>>)
    ELSE IF allocation.status # "NOALLOC" /\ allocation.status # "OWNED"
    THEN Out([vi EXCEPT !.alloctype = With(vi.alloctype, v, AllocInfo(allocation.type, "DEALLOC", tok))],
             <<>>)
    ELSE Out(vi, <<>>)

-----------------------------------------------------------------------------
(* return and end of scope *)

\* retOne that takes every variable for the returned one
retOne_usedAlways(tok, vi, acc, v, isEndOfScope, endOfBlock, used) ==
    LET ai == vi.alloctype[v]
    IN  IF ~isEndOfScope /\ ~managed(ai) /\ v \in vi.conditionalAlloc THEN acc
        ELSE IF v \in vi.referenced THEN acc
        ELSE IF isEndOfScope /\ DeclBlock(v) # endOfBlock THEN acc
        ELSE LET d == IF ai.status = "DEALLOC"
                      THEN <<deallocReturnError(tok, ai.allocTok, v)>>
                      ELSE <<>>
             IN  [ds |-> acc.ds \o d, toRemove |-> acc.toRemove \cup {v}]

\* retOne that reports conditionally allocated variables at a return too
retOne_conditionalReported(tok, vi, acc, v, isEndOfScope, endOfBlock, used) ==
    LET ai == vi.alloctype[v]
    IN  IF v \in vi.referenced THEN acc
        ELSE IF isEndOfScope /\ DeclBlock(v) # endOfBlock THEN acc
        ELSE LET d == IF used # "NONE" /\ ai.status = "DEALLOC"
                      THEN <<deallocReturnError(tok, ai.allocTok, v)>>
                      ELSE IF used # "PTR" /\ ~managed(ai)
                      THEN IF v \notin DOMAIN vi.possibleUsage
                           THEN <<leakError(tok, v)>>
                           ELSE configurationInfo(tok, vi.possibleUsage[v], v)
                      ELSE <<>>
             IN  [ds |-> acc.ds \o d, toRemove |-> acc.toRemove \cup {v}]

\* retOne that does not look for a returned deallocated pointer
retOne_noDeallocReturn(tok, vi, acc, v, isEndOfScope, endOfBlock, used) ==
    LET ai == vi.alloctype[v]
    IN  IF ~isEndOfScope /\ ~managed(ai) /\ v \in vi.conditionalAlloc THEN acc
        ELSE IF v \in vi.referenced THEN acc
        ELSE IF isEndOfScope /\ DeclBlock(v) # endOfBlock THEN acc
        ELSE LET d == IF used # "PTR" /\ ~managed(ai)
                      THEN IF v \notin DOMAIN vi.possibleUsage
                           THEN <<leakError(tok, v)>>
                           ELSE configurationInfo(tok, vi.possibleUsage[v], v)
                      ELSE <<>>
             IN  [ds |-> acc.ds \o d, toRemove |-> acc.toRemove \cup {v}]

\* retOne that reports at the end of any block
retOne_anyScope(tok, vi, acc, v, isEndOfScope, endOfBlock, used) ==
    LET ai == vi.alloctype[v]
    IN  IF ~isEndOfScope /\ ~managed(ai) /\ v \in vi.conditionalAlloc THEN acc
        ELSE IF v \in vi.referenced THEN acc
        ELSE LET d == IF used # "NONE" /\ ai.status = "DEALLOC"
                      THEN <<deallocReturnError(tok, ai.allocTok, v)>>
                      ELSE IF used # "PTR" /\ ~managed(ai)
                      THEN IF v \notin DOMAIN vi.possibleUsage
                           THEN <<leakError(tok, v)>>
                           ELSE configurationInfo(tok, vi.possibleUsage[v], v)
                      ELSE <<>>
             IN  [ds |-> acc.ds \o d, toRemove |-> acc.toRemove \cup {v}]

\* what ret does for one record: used is "PTR" when the return statement
\* returns the variable, "NONE" when it does not mention it
retOne(tok, vi, acc, v, isEndOfScope, endOfBlock, used) ==
    LET ai == vi.alloctype[v]
    IN  IF ~isEndOfScope /\ ~managed(ai) /\ v \in vi.conditionalAlloc THEN acc
        ELSE IF v \in vi.referenced THEN acc
        ELSE IF isEndOfScope /\ DeclBlock(v) # endOfBlock THEN acc
        ELSE LET d == IF used # "NONE" /\ ai.status = "DEALLOC"
                      THEN <<deallocReturnError(tok, ai.allocTok, v)>>
                      ELSE IF used # "PTR" /\ ~managed(ai)
                      THEN IF v \notin DOMAIN vi.possibleUsage
                           THEN <<leakError(tok, v)>>
                           ELSE configurationInfo(tok, vi.possibleUsage[v], v)
                      ELSE <<>>
             IN  [ds |-> acc.ds \o d, toRemove |-> acc.toRemove \cup {v}]

\* how the statement at tok uses v: rv is v for `return v;`, -v for
\* `return *v;` and 0 for a statement that does not mention a variable
PtrUsage(rv, v) ==
    IF rv = v THEN "PTR" ELSE IF rv = -v THEN "DEREF" ELSE "NONE"

RECURSIVE retLoop(_, _, _, _, _, _, _)
retLoop(tok, vi, acc, ids, isEndOfScope, endOfBlock, rv) ==
    IF ids = <<>> THEN acc
    ELSE retLoop(tok, vi,
                 retOne(tok, vi, acc, Head(ids), isEndOfScope, endOfBlock,
                        PtrUsage(rv, Head(ids))),
                 Tail(ids), isEndOfScope, endOfBlock, rv)

RECURSIVE eraseAll(_, _)
eraseAll(vi, ids) == IF ids = <<>> THEN vi ELSE eraseAll(erase(vi, Head(ids)), Tail(ids))

\* tok is the `return` token or the closing brace; endOfBlock is the block that
\* ends at tok (end of scope only); rv is the returned variable or 0
ret(tok, vi, isEndOfScope, endOfBlock, rv) ==
    LET r == retLoop(tok, vi, [ds |-> <<>>, toRemove |-> {}],
                     Ascending(DOMAIN vi.alloctype), isEndOfScope, endOfBlock, rv)
    IN  Out(eraseAll(vi, Ascending(r.toRemove)), r.ds)

-----------------------------------------------------------------------------
(* checkScope: one invocation is a frame of the stack *)

\* the token after a block position: at the closing brace of a block that is
\* not the invocation's own (the parent scans a then-block itself after the
\* then-branch analysis returned false) scanning goes on behind the brace
RECURSIVE NextPos(_, _, _, _)
NextPos(body, start, bp, i) ==
    IF bp = start \/ i <= Len(BlockAt(body, bp)) THEN [bp |-> bp, i |-> i]
    ELSE LET n == Len(bp)
             par == SubSeq(bp, 1, n - 2)
             k == bp[n - 1]
         IN  IF bp[n] = 1 /\ BlockAt(body, par)[k].he
             THEN NextPos(body, start, par \o <<k, 2>>, 1)
             ELSE NextPos(body, start, par, k + 1)

\* the test of the ceiling with >= for >
LimitExceeded_offByOne(recursiveCount) == recursiveCount + 1 >= recursiveLimit

\* the test at the entry of checkScope: ++recursiveCount > recursiveLimit
LimitExceeded(recursiveCount) == recursiveCount + 1 > recursiveLimit

\* entry of checkScope(startToken, varInfo, notzero, recursiveCount)
NewFrame(start, vi, notzero, recursiveCount) ==
    [start |-> start, bp |-> start, i |-> 1,
     varInfo |-> vi,
     conditionalAlloc |-> vi.conditionalAlloc,
     notzero |-> notzero,
     recursiveCount |-> recursiveCount + 1,
     st |-> "scan", res |-> TRUE,
     varInfo1 |-> EmptyVarInfo, varInfo2 |-> EmptyVarInfo]

Body == scopes[fn]
Top == stack[Len(stack)]
Tok(f) == f.bp \o <<f.i>>
AtEnd(f) == f.bp = f.start /\ f.i = Len(BlockAt(Body, f.bp)) + 1
Stmt(f) == BlockAt(Body, f.bp)[f.i]
Scanning == stack # <<>> /\ Top.st = "scan" /\ ~AtEnd(Top)

\* the loop goes on with the token behind the statement
Advance(f) ==
    LET np == NextPos(Body, f.start, f.bp, f.i + 1)
    IN  [f EXCEPT !.bp = np.bp, !.i = np.i]

SetTop(f) == [stack EXCEPT ![Len(stack)] = f]
Report(ds) == diags \o [k \in 1..Len(ds) |-> [fn |-> fn] @@ ds[k]]

\* assignment without the test whether rhs reads the variable
assignment_noRhsCheck(vi, conditionalAlloc, notzero, s, tok) ==
    LET ds1 == IF s.v \notin conditionalAlloc THEN leakIfAllocated(tok, s.v, vi) ELSE <<>>
        vi1 == erase(vi, s.v)
        r == IF s.k = "alloc"
             THEN Out([vi1 EXCEPT !.alloctype = With(vi1.alloctype, s.v, AllocInfo(s.f, "ALLOC", tok))], <<>>)
             ELSE IF s.k = "realloc"
             THEN changeAllocStatusIfRealloc(vi1, s.f, tok, s.v, s.a)
             ELSE Out(vi1, <<>>)
    IN  [vi |-> r.vi, ds |-> ds1 \o r.ds,
         notzero |-> IF s.k = "assign" /\ s.rhs = "num"
                     THEN notzero \cup {s.v} ELSE notzero \ {s.v}]

\* assignment that discards the old record only for an allocation
assignment_keepsRecord(vi, conditionalAlloc, notzero, s, tok) ==
    IF s.k = "realloc" /\ s.a = s.v
    THEN [vi |-> vi, ds |-> <<>>, notzero |-> notzero]
    ELSE LET ds1 == IF s.v \notin conditionalAlloc THEN leakIfAllocated(tok, s.v, vi) ELSE <<>>
             vi1 == IF s.k = "assign" THEN vi ELSE erase(vi, s.v)
             r == IF s.k = "alloc"
                  THEN Out([vi1 EXCEPT !.alloctype = With(vi1.alloctype, s.v, AllocInfo(s.f, "ALLOC", tok))], <<>>)
                  ELSE IF s.k = "realloc"
                  THEN changeAllocStatusIfRealloc(vi1, s.f, tok, s.v, s.a)
                  ELSE Out(vi1, <<>>)
         IN  [vi |-> r.vi, ds |-> ds1 \o r.ds,
              notzero |-> IF s.k = "assign" /\ s.rhs = "num"
                          THEN notzero \cup {s.v} ELSE notzero \ {s.v}]

\* the assignment `v = rhs`: rhs is a null or nonzero constant, a call of an
\* allocator, or a call of a realloc function on variable a
assignment(vi, conditionalAlloc, notzero, s, tok) ==
    IF s.k = "realloc" /\ s.a = s.v
    THEN [vi |-> vi, ds |-> <<>>, notzero |-> notzero]
    ELSE LET ds1 == IF s.v \notin conditionalAlloc THEN leakIfAllocated(tok, s.v, vi) ELSE <<>>
             vi1 == erase(vi, s.v)
             r == IF s.k = "alloc"
                  THEN Out([vi1 EXCEPT !.alloctype = With(vi1.alloctype, s.v, AllocInfo(s.f, "ALLOC", tok))], <<>>)
                  ELSE IF s.k = "realloc"
                  THEN changeAllocStatusIfRealloc(vi1, s.f, tok, s.v, s.a)
                  ELSE Out(vi1, <<>>)
         IN  [vi |-> r.vi, ds |-> ds1 \o r.ds,
              notzero |-> IF s.k = "assign" /\ s.rhs = "num"
                          THEN notzero \cup {s.v} ELSE notzero \ {s.v}]

\* conditionCopies that confuses the two branches of a comparison
conditionCopies_swapped(vi, notzero, c) ==
    IF c.ck = "ne0"
    THEN [varInfo1 |-> IF c.v \in notzero THEN clear(vi)
                       ELSE erase(reallocToAlloc(vi, c.v), c.v),
          varInfo2 |-> vi]
    ELSE IF c.ck = "failed"
    THEN [varInfo1 |-> vi, varInfo2 |-> erase(reallocToAlloc(vi, c.v), c.v)]
    ELSE [varInfo1 |-> vi, varInfo2 |-> vi]

\* conditionCopies that removes the compared variable from both copies
conditionCopies_bothErased(vi, notzero, c) ==
    IF c.ck = "ne0"
    THEN [varInfo1 |-> erase(vi, c.v),
          varInfo2 |-> IF c.v \in notzero THEN clear(vi)
                       ELSE erase(reallocToAlloc(vi, c.v), c.v)]
    ELSE IF c.ck = "failed"
    THEN [varInfo1 |-> erase(reallocToAlloc(vi, c.v), c.v), varInfo2 |-> erase(vi, c.v)]
    ELSE [varInfo1 |-> vi, varInfo2 |-> vi]

\* the comparisons of the condition: the copies for the then- and else-branch
conditionCopies(vi, notzero, c) ==
    IF c.ck = "ne0"
    THEN [varInfo1 |-> vi,
          varInfo2 |-> IF c.v \in notzero THEN clear(vi)
                       ELSE erase(reallocToAlloc(vi, c.v), c.v)]
    ELSE IF c.ck = "failed"
    THEN [varInfo1 |-> erase(reallocToAlloc(vi, c.v), c.v), varInfo2 |-> vi]
    ELSE [varInfo1 |-> vi, varInfo2 |-> vi]

\* checkTokenInsideExpression on the tokens of `T*& r = v;`: r has no record
\* and marks v as referenced; v, when it has a record, is the right-hand side
\* of an assignment and loses it
checkTokenInsideExpression(vi, v) ==
    LET vi1 == [vi EXCEPT !.referenced = @ \cup {v}]
    IN  IF Has(vi1, v) THEN erase(vi1, v) ELSE vi1

\* conditionAlloc that leaves the old entries of v to the assignment
conditionAlloc_recordOnly(vi, v, f, tok) ==
    IF f = 0
    THEN [vi EXCEPT !.alloctype = Without(vi.alloctype, v)]
    ELSE [vi EXCEPT !.alloctype = With(vi.alloctype, v, AllocInfo(f, "ALLOC", tok))]

\* the assignment `v = alloc_f(..)` inside the condition of an `if`; f is 0
\* for a function that is no allocator
conditionAlloc(vi, v, f, tok) ==
    LET vi1 == IF Has(vi, v) THEN erase(vi, v) ELSE vi
    IN  IF f = 0
        THEN [vi1 EXCEPT !.alloctype = Without(vi1.alloctype, v)]
        ELSE [vi1 EXCEPT !.alloctype = With(vi1.alloctype, v, AllocInfo(f, "ALLOC", tok))]

\* throw: is one of the executable scopes around the statement a try block
tryFound(in) == \E k \in 1..Len(in) : in[k] = "eTry"

\* outparamAlloc that installs the record without looking at the old one
outparamAlloc_noLeak(vi, v, f, tok) ==
    Out([vi EXCEPT !.alloctype = With(vi.alloctype, v, AllocInfo(f, "ALLOC", tok))], <<>>)

\* functionCall for the argument `&v` of an allocator that allocates through
\* that argument: the record is made or overwritten in place by operator[]
outparamAlloc(vi, v, f, tok) ==
    LET old == IF Has(vi, v) THEN vi.alloctype[v] ELSE AllocInfo(0, "NOALLOC", NoTok)
        varAlloc == [old EXCEPT !.type = f, !.status = "ALLOC", !.allocTok = tok]
    IN  Out([vi EXCEPT !.alloctype = With(vi.alloctype, v, varAlloc)],
            leakIfAllocated(tok, v, vi))

RECURSIVE eraseSet(_, _)
eraseSet(vi, S) ==
    IF S = {} THEN vi
    ELSE LET v == CHOOSE x \in S : TRUE IN eraseSet(erase(vi, v), S \ {v})

\* merge that takes the records of the then-branch only
merge_thenOnly(old, conditionalAlloc, varInfo1, varInfo2) ==
    [alloctype |-> varInfo1.alloctype,
     possibleUsage |-> varInfo1.possibleUsage,
     conditionalAlloc |-> {v \in DOMAIN varInfo1.alloctype : ~Has(varInfo2, v) /\ ~Has(old, v)},
     referenced |-> {}]

\* merge that marks no variable conditionally allocated
merge_noConditional(old, conditionalAlloc, varInfo1, varInfo2) ==
    [alloctype |-> InsertAll(varInfo1.alloctype, varInfo2.alloctype),
     possibleUsage |-> InsertAll(varInfo1.possibleUsage, varInfo2.possibleUsage),
     conditionalAlloc |-> {},
     referenced |-> {}]

\* the join behind the branches: old is the state before the `if`,
\* conditionalAlloc the copy taken when the invocation started
merge(old, conditionalAlloc, varInfo1, varInfo2) ==
    LET gone == {v \in (DOMAIN old.alloctype) \cap old.conditionalAlloc :
                    ~Has(varInfo1, v) \/ ~Has(varInfo2, v)}
        a1 == eraseSet(varInfo1, gone)
        a2 == eraseSet(varInfo2, gone)
        cond1 == {v \in DOMAIN a1.alloctype : ~Has(a2, v) /\ ~Has(old, v)}
        cond2 == {v \in DOMAIN a2.alloctype : ~Has(a1, v) /\ ~Has(old, v)}
        m1 == {v \in DOMAIN a1.alloctype : managed(a1.alloctype[v]) /\ v \in conditionalAlloc}
        b2 == eraseSet(a2, m1)
        m2 == {v \in DOMAIN b2.alloctype : managed(b2.alloctype[v]) /\ v \in conditionalAlloc}
        b1 == eraseSet(a1, m2)
    IN  [alloctype |-> InsertAll(b1.alloctype, b2.alloctype),
         possibleUsage |-> InsertAll(b1.possibleUsage, b2.possibleUsage),
         conditionalAlloc |-> ((cond1 \cup cond2) \ m1) \ m2,
         referenced |-> {}]

\* the parent behind the merged `if`
Merged(p, varInfo1, varInfo2) ==
    Advance([p EXCEPT !.varInfo = merge(p.varInfo, p.conditionalAlloc, varInfo1, varInfo2),
                      !.st = "scan",
                      !.varInfo1 = EmptyVarInfo, !.varInfo2 = EmptyVarInfo])

\* every variable with a record in some copy of the state of an invocation
Tracked(f) ==
    (DOMAIN f.varInfo.alloctype) \cup (DOMAIN f.varInfo1.alloctype) \cup (DOMAIN f.varInfo2.alloctype)

-----------------------------------------------------------------------------
(* Function bodies: the statements the dispatcher recognises *)

\* v = 0 (rhs "null") or v = <nonzero number> (rhs "num")
SAssign(v, rhs) == [k |-> "assign", v |-> v, rhs |-> rhs]
\* v = alloc_f(..): a library allocator of group f
SAlloc(v, f) == [k |-> "alloc", v |-> v, f |-> f]
\* v = realloc_f(a, ..): a library realloc function of group f
SRealloc(v, a, f) == [k |-> "realloc", v |-> v, a |-> a, f |-> f]
\* dealloc_f(v): a library deallocator of group f
SDealloc(v, f) == [k |-> "dealloc", v |-> v, f |-> f]
\* alloc_f(&v): a library allocator of group f that allocates through its
\* argument
SOutAlloc(v, f) == [k |-> "outalloc", v |-> v, f |-> f, hasBody |-> FALSE, nr |-> "returns"]
\* g(v), or g() when v = 0: a function the library does not configure, with
\* a body in this file (hasBody) or undeclared; nr is what
\* Tokenizer::isScopeNoReturn says of a block that ends with the call
SCall(v, hb, nr) == [k |-> "call", v |-> v, hasBody |-> hb, nr |-> nr]
\* std::unique_ptr<T, D> sp(v, ..) whose deleter resolves to group f
SSmart(v, f) == [k |-> "smart", v |-> v, f |-> f, deleter |-> "resolved"]
\* std::unique_ptr<T, D> sp(v, d) whose deleter d has no body to look into
\* ("unchecked"), or has a body that calls no deallocator ("nodealloc")
SSmartDeleter(v, d) == [k |-> "smart", v |-> v, f |-> NEW_SINGLE, deleter |-> d]
\* return; (rv = 0) or return rv;
SReturn(rv) == [k |-> "return", rv |-> rv]
SReturnDeref(v) == SReturn(-v)
SGoto == [k |-> "goto"]
\* T*& r = v; with r a new variable
SRef(v) == [k |-> "ref", v |-> v]
\* throw; (rv = 0) or throw rv; in is the sequence of the types of the
\* executable scopes around the statement, innermost first
SThrow(rv, in) == [k |-> "throw", rv |-> rv, in |-> in]
\* break; or continue;
SBreak(kw) == [k |-> "break", kw |-> kw]
\* T *v; a declaration without initialisation
SDecl(v) == [k |-> "decl", v |-> v]
\* delete v; (arrayDelete FALSE) or delete [] v; (arrayDelete TRUE)
SDelete(v, arrayDelete) == [k |-> "delete", v |-> v, arrayDelete |-> arrayDelete]
\* if (c) { th } and, when he, else { el }
SIf(c, th, el, he) == [k |-> "if", c |-> c, th |-> th, el |-> el, he |-> he]

\* conditions: `v` / `v != 0` (ne0), `!v` / `v == 0` (failed), or an
\* expression of unknown value that compares no variable (other)
CNe0(v) == [ck |-> "ne0", v |-> v]
CFailed(v) == [ck |-> "failed", v |-> v]
COther == [ck |-> "other", v |-> 0]
\* `(v = alloc_f(..)) != 0`: an allocation in the condition, compared
CAllocNe0(v, f) == [ck |-> "allocne0", v |-> v, f |-> f]

\* a condition with a known value: `if (1)`, `if (0)`
CKnown(val) == [ck |-> IF val THEN "true" ELSE "false", v |-> 0]

\* condTok->hasKnownIntValue(): the branch that is not analysed
skipIfBlock(c) == c.ck = "false"
skipElseBlock(c) == c.ck = "true"

SeqsUpTo(S, n) == UNION {[1..k -> S] : k \in 0..n}

-----------------------------------------------------------------------------
(* The steps of the analysis *)

Assignment ==
    /\ Scanning
    /\ Stmt(Top).k \in {"assign", "alloc", "realloc"}
    /\ LET r == assignment(Top.varInfo, Top.conditionalAlloc, Top.notzero, Stmt(Top), Tok(Top))
       IN  /\ stack' = SetTop(Advance([Top EXCEPT !.varInfo = r.vi, !.notzero = r.notzero]))
           /\ diags' = Report(r.ds)
    /\ UNCHANGED <<scopes, checkLibrary, fn, gotoSeen, thrown>>

FunctionCall ==
    /\ Scanning
    /\ Stmt(Top).k \in {"dealloc", "call", "outalloc"}
    /\ LET s == Stmt(Top)
           ftok == Tok(Top)
           allocation == IF s.k = "dealloc"
                         THEN [type |-> s.f, status |-> "DEALLOC", allocTok |-> ftok]
                         ELSE [type |-> 0, status |-> "NOALLOC", allocTok |-> ftok]
           \* functionCall: nothing to do when there is no argument
           r == IF s.v = 0 THEN Out(Top.varInfo, <<>>)
                ELSE IF s.k = "outalloc" THEN outparamAlloc(Top.varInfo, s.v, s.f, ftok)
                ELSE changeAllocStatus(Top.varInfo, allocation, ftok, s.v)
           \* scopes that might be noreturn: the call is followed by `}`
           atBlockEnd == Top.i = Len(BlockAt(Body, Top.bp))
           vi == IF allocation.status = "NOALLOC" /\ atBlockEnd /\ s.nr # "returns"
                 THEN IF s.nr = "noreturn" THEN clear(r.vi)
                      ELSE IF s.hasBody THEN r.vi
                      ELSE possibleUsageAll(r.vi, [tok |-> ftok,
                                                   usage |-> IF s.v = 0 THEN "NORET" ELSE "USED"])
                 ELSE r.vi
       IN  /\ stack' = SetTop(Advance([Top EXCEPT !.varInfo = vi]))
           /\ diags' = Report(r.ds)
    /\ UNCHANGED <<scopes, checkLibrary, fn, gotoSeen, thrown>>

SmartPointer ==
    /\ Scanning
    /\ Stmt(Top).k = "smart"
    /\ LET s == Stmt(Top)
           \* there is a deleter, but it cannot be checked
           r == IF s.deleter = "unchecked" THEN Out(clear(Top.varInfo), <<>>)
                ELSE changeAllocStatus(Top.varInfo,
                                       [type |-> s.f, status |-> "OWNED", allocTok |-> Tok(Top)],
                                       Tok(Top), s.v)
       IN  /\ stack' = SetTop(Advance([Top EXCEPT !.varInfo = r.vi]))
           /\ diags' = Report(r.ds)
    /\ UNCHANGED <<scopes, checkLibrary, fn, gotoSeen, thrown>>

\* a declaration `T *v;` is passed over
Declaration ==
    /\ Scanning
    /\ Stmt(Top).k = "decl"
    /\ stack' = SetTop(Advance(Top))
    /\ UNCHANGED <<scopes, checkLibrary, fn, diags, gotoSeen, thrown>>

\* Delete that takes `delete [] v;` for `delete v;`
Delete_oneFamily ==
    /\ Scanning
    /\ Stmt(Top).k = "delete"
    /\ LET s == Stmt(Top)
           allocation == [type |-> NEW_SINGLE, status |-> "DEALLOC", allocTok |-> Tok(Top)]
           r == changeAllocStatus(Top.varInfo, allocation, Tok(Top), s.v)
       IN  /\ stack' = SetTop(Advance([Top EXCEPT !.varInfo = r.vi]))
           /\ diags' = Report(r.ds)
    /\ UNCHANGED <<scopes, checkLibrary, fn, gotoSeen, thrown>>

\* delete v; and delete [] v; deallocate with the hard-coded families
Delete ==
    /\ Scanning
    /\ Stmt(Top).k = "delete"
    /\ LET s == Stmt(Top)
           allocation == [type |-> IF s.arrayDelete THEN NEW_ARRAY ELSE NEW_SINGLE,
                          status |-> "DEALLOC", allocTok |-> Tok(Top)]
           r == changeAllocStatus(Top.varInfo, allocation, Tok(Top), s.v)
       IN  /\ stack' = SetTop(Advance([Top EXCEPT !.varInfo = r.vi]))
           /\ diags' = Report(r.ds)
    /\ UNCHANGED <<scopes, checkLibrary, fn, gotoSeen, thrown>>

Return ==
    /\ Scanning
    /\ Stmt(Top).k = "return"
    /\ LET r == ret(Tok(Top), Top.varInfo, FALSE, <<>>, Stmt(Top).rv)
       IN  /\ stack' = SetTop(Advance([Top EXCEPT !.varInfo = clear(r.vi)]))
           /\ diags' = Report(r.ds)
    /\ UNCHANGED <<scopes, checkLibrary, fn, gotoSeen, thrown>>

Throw ==
    /\ Scanning
    /\ Stmt(Top).k = "throw"
    /\ LET s == Stmt(Top)
           \* if the execution leaves the function then treat it as return;
           \* ret looks for the variable behind `return`, `(`, `{`, `,` or `*`
           \* only, so that the operand of `throw v;` is not seen as used
           r == IF tryFound(s.in) THEN Out(Top.varInfo, <<>>)
                ELSE ret(Tok(Top), Top.varInfo, FALSE, <<>>, 0)
       IN  /\ stack' = SetTop(Advance([Top EXCEPT !.varInfo = clear(r.vi)]))
           /\ diags' = Report(r.ds)
    /\ UNCHANGED <<scopes, checkLibrary, fn, gotoSeen, thrown>>

\* ContinueBreak that gives up the block as a goto does
ContinueBreak_abandons ==
    /\ Scanning
    /\ Stmt(Top).k = "break"
    /\ stack' = SetTop([Top EXCEPT !.varInfo = clear(Top.varInfo), !.st = "ret", !.res = FALSE])
    /\ UNCHANGED <<scopes, checkLibrary, fn, diags, gotoSeen, thrown>>

ContinueBreak ==
    /\ Scanning
    /\ Stmt(Top).k = "break"
    /\ stack' = SetTop(Advance([Top EXCEPT !.varInfo = clear(Top.varInfo)]))
    /\ UNCHANGED <<scopes, checkLibrary, fn, diags, gotoSeen, thrown>>

\* a reference declaration: its tokens are handled one by one
TokenInsideExpression ==
    /\ Scanning
    /\ Stmt(Top).k = "ref"
    /\ stack' = SetTop(Advance([Top EXCEPT !.varInfo = checkTokenInsideExpression(Top.varInfo, Stmt(Top).v)]))
    /\ UNCHANGED <<scopes, checkLibrary, fn, diags, gotoSeen, thrown>>

Goto ==
    /\ Scanning
    /\ Stmt(Top).k = "goto"
    /\ stack' = SetTop([Top EXCEPT !.varInfo = clear(Top.varInfo), !.st = "ret", !.res = FALSE])
    /\ gotoSeen' = gotoSeen \cup UNION {Tracked(stack[k]) : k \in 1..Len(stack)}
    /\ UNCHANGED <<scopes, checkLibrary, fn, diags, thrown>>

IfStatement ==
    /\ Scanning
    /\ Stmt(Top).k = "if"
    /\ LET cond == Stmt(Top).c
           \* assignments in the condition come before the copies are made
           vi == IF cond.ck = "allocne0"
                 THEN conditionAlloc(Top.varInfo, cond.v, cond.f, Tok(Top))
                 ELSE Top.varInfo
           c == conditionCopies(vi, Top.notzero,
                                IF cond.ck = "allocne0" THEN CNe0(cond.v) ELSE cond)
           p == [Top EXCEPT !.st = "then", !.varInfo = vi,
                            !.varInfo1 = c.varInfo1, !.varInfo2 = c.varInfo2]
       IN  IF skipIfBlock(cond) /\ ~Stmt(Top).he
           THEN /\ stack' = SetTop(Merged(p, c.varInfo1, c.varInfo2))
                /\ thrown' = thrown
           ELSE IF LimitExceeded(Top.recursiveCount)
           THEN stack' = <<>> /\ thrown' = TRUE
           ELSE IF skipIfBlock(cond)
           THEN /\ stack' = SetTop([p EXCEPT !.st = "else"])
                                 \o <<NewFrame(Top.bp \o <<Top.i, 2>>, c.varInfo2,
                                               Top.notzero, Top.recursiveCount)>>
                /\ thrown' = thrown
           ELSE /\ stack' = SetTop(p) \o <<NewFrame(Top.bp \o <<Top.i, 1>>, c.varInfo1,
                                                    Top.notzero, Top.recursiveCount)>>
                /\ thrown' = thrown
    /\ UNCHANGED <<scopes, checkLibrary, fn, diags, gotoSeen>>

\* AfterThen that hands the state of the then-branch to the else-branch
AfterThen_elseGetsThenState ==
    /\ Len(stack) >= 2
    /\ Top.st = "ret"
    /\ stack[Len(stack) - 1].st = "then"
    /\ LET p == stack[Len(stack) - 1]
           rest == SubSeq(stack, 1, Len(stack) - 2)
           np == NextPos(Body, p.start, p.bp \o <<p.i, 1>>, 1)
       IN  IF ~Top.res
           THEN /\ stack' = rest \o <<[p EXCEPT !.varInfo = clear(p.varInfo), !.st = "scan",
                                                !.bp = np.bp, !.i = np.i,
                                                !.varInfo1 = EmptyVarInfo, !.varInfo2 = EmptyVarInfo]>>
                /\ thrown' = thrown
           ELSE IF Stmt(p).he /\ ~skipElseBlock(Stmt(p).c)
           THEN IF LimitExceeded(p.recursiveCount)
                THEN stack' = <<>> /\ thrown' = TRUE
                ELSE /\ stack' = rest \o <<[p EXCEPT !.st = "else", !.varInfo1 = Top.varInfo],
                                           NewFrame(p.bp \o <<p.i, 2>>, Top.varInfo, p.notzero,
                                                    p.recursiveCount)>>
                     /\ thrown' = thrown
           ELSE /\ stack' = rest \o <<Merged(p, Top.varInfo, p.varInfo2)>>
                /\ thrown' = thrown
    /\ UNCHANGED <<scopes, checkLibrary, fn, diags, gotoSeen>>

\* AfterThen whose abandon path restarts the scan at the `if` itself
AfterThen_rescanIf ==
    /\ Len(stack) >= 2
    /\ Top.st = "ret"
    /\ stack[Len(stack) - 1].st = "then"
    /\ LET p == stack[Len(stack) - 1]
           rest == SubSeq(stack, 1, Len(stack) - 2)
           np == [bp |-> p.bp, i |-> p.i]
       IN  IF ~Top.res
           THEN /\ stack' = rest \o <<[p EXCEPT !.varInfo = clear(p.varInfo), !.st = "scan",
                                                !.bp = np.bp, !.i = np.i,
                                                !.varInfo1 = EmptyVarInfo, !.varInfo2 = EmptyVarInfo]>>
                /\ thrown' = thrown
           ELSE IF Stmt(p).he /\ ~skipElseBlock(Stmt(p).c)
           THEN IF LimitExceeded(p.recursiveCount)
                THEN stack' = <<>> /\ thrown' = TRUE
                ELSE /\ stack' = rest \o <<[p EXCEPT !.st = "else", !.varInfo1 = Top.varInfo],
                                           NewFrame(p.bp \o <<p.i, 2>>, p.varInfo2, p.notzero,
                                                    p.recursiveCount)>>
                     /\ thrown' = thrown
           ELSE /\ stack' = rest \o <<Merged(p, Top.varInfo, p.varInfo2)>>
                /\ thrown' = thrown
    /\ UNCHANGED <<scopes, checkLibrary, fn, diags, gotoSeen>>

\* the then-branch analysis has returned
AfterThen ==
    /\ Len(stack) >= 2
    /\ Top.st = "ret"
    /\ stack[Len(stack) - 1].st = "then"
    /\ LET p == stack[Len(stack) - 1]
           rest == SubSeq(stack, 1, Len(stack) - 2)
           np == NextPos(Body, p.start, p.bp \o <<p.i, 1>>, 1)
       IN  IF ~Top.res
           THEN /\ stack' = rest \o <<[p EXCEPT !.varInfo = clear(p.varInfo), !.st = "scan",
                                                !.bp = np.bp, !.i = np.i,
                                                !.varInfo1 = EmptyVarInfo, !.varInfo2 = EmptyVarInfo]>>
                /\ thrown' = thrown
           ELSE IF Stmt(p).he /\ ~skipElseBlock(Stmt(p).c)
           THEN IF LimitExceeded(p.recursiveCount)
                THEN stack' = <<>> /\ thrown' = TRUE
                ELSE /\ stack' = rest \o <<[p EXCEPT !.st = "else", !.varInfo1 = Top.varInfo],
                                           NewFrame(p.bp \o <<p.i, 2>>, p.varInfo2, p.notzero,
                                                    p.recursiveCount)>>
                     /\ thrown' = thrown
           ELSE /\ stack' = rest \o <<Merged(p, Top.varInfo, p.varInfo2)>>
                /\ thrown' = thrown
    /\ UNCHANGED <<scopes, checkLibrary, fn, diags, gotoSeen>>

\* the else-branch analysis has returned
AfterElse ==
    /\ Len(stack) >= 2
    /\ Top.st = "ret"
    /\ stack[Len(stack) - 1].st = "else"
    /\ LET p == stack[Len(stack) - 1]
           rest == SubSeq(stack, 1, Len(stack) - 2)
       IN  stack' =
             IF ~Top.res
             THEN rest \o <<[p EXCEPT !.varInfo = clear(p.varInfo), !.st = "ret", !.res = FALSE,
                                      !.varInfo1 = EmptyVarInfo, !.varInfo2 = EmptyVarInfo]>>
             ELSE rest \o <<Merged(p, p.varInfo1, Top.varInfo)>>
    /\ UNCHANGED <<scopes, checkLibrary, fn, diags, gotoSeen, thrown>>

EndOfScope ==
    /\ stack # <<>>
    /\ Top.st = "scan"
    /\ AtEnd(Top)
    /\ LET r == ret(Tok(Top), Top.varInfo, TRUE, Top.start, 0)
       IN  /\ stack' = SetTop([Top EXCEPT !.varInfo = r.vi, !.st = "ret", !.res = TRUE])
           /\ diags' = Report(r.ds)
    /\ UNCHANGED <<scopes, checkLibrary, fn, gotoSeen, thrown>>

\* check() that hands the known-nonzero set of one function scope to the next
NextFunction_keepsNotzero ==
    /\ Len(stack) = 1
    /\ Top.st = "ret"
    /\ stack' = IF fn < Len(scopes) THEN <<NewFrame(<<>>, EmptyVarInfo, Top.notzero, 0)>> ELSE <<>>
    /\ fn' = IF fn < Len(scopes) THEN fn + 1 ELSE fn
    /\ gotoSeen' = {}
    /\ UNCHANGED <<scopes, checkLibrary, diags, thrown>>

\* check(): the function scope is done, the next one starts with an empty VarInfo
NextFunction ==
    /\ Len(stack) = 1
    /\ Top.st = "ret"
    /\ stack' = IF fn < Len(scopes) THEN <<NewFrame(<<>>, EmptyVarInfo, {}, 0)>> ELSE <<>>
    /\ fn' = IF fn < Len(scopes) THEN fn + 1 ELSE fn
    /\ gotoSeen' = {}
    /\ UNCHANGED <<scopes, checkLibrary, diags, thrown>>

Done == stack = <<>>

Next ==
    \/ Assignment
    \/ FunctionCall
    \/ SmartPointer
    \/ Declaration
    \/ Delete
    \/ Return
    \/ Throw
    \/ ContinueBreak
    \/ TokenInsideExpression
    \/ Goto
    \/ IfStatement
    \/ AfterThen
    \/ AfterElse
    \/ EndOfScope
    \/ NextFunction

-----------------------------------------------------------------------------
(* The bodies analysed *)

\* statements on variable 1 (p), with variable 2 (q) where a second one is needed
StraightStmts ==
    {SAlloc(1, f) : f \in Families} \cup {SDealloc(1, f) : f \in Families}
    \cup {SAssign(1, "null"), SAssign(1, "num"), SSmart(1, 1),
          SRealloc(1, 1, 1), SRealloc(2, 1, 1), SDealloc(2, 1),
          SReturn(0), SReturn(1), SGoto}

StraightBodies == SeqsUpTo(StraightStmts, MaxLen)

\* one if/else on variable 1, allocated before it or not
BranchStmts == {SAlloc(1, 1), SDealloc(1, 1), SAssign(1, "null"), SReturn(0)}

BranchBodies ==
    {pre \o <<SIf(COther, th, el.b, el.he)>> \o post :
        pre \in SeqsUpTo({SAlloc(1, 1)}, 1),
        th \in SeqsUpTo(BranchStmts, MaxInner),
        el \in {[b |-> <<>>, he |-> FALSE]}
               \cup {[b |-> b, he |-> TRUE] : b \in SeqsUpTo(BranchStmts, MaxInner)},
        post \in SeqsUpTo({SDealloc(1, 1), SReturn(0)}, 1)}

\* p = alloc(); t = realloc(p); if (<t compared>) { .. } ..
ReallocBodies ==
    {<<SAlloc(1, f0), SRealloc(t, 1, f1), SIf(c, th, <<>>, FALSE)>> \o post :
        f0 \in Families, f1 \in Families, t \in VarIds,
        c \in {CFailed(1), CFailed(2), CNe0(2), COther},
        th \in SeqsUpTo({SReturn(0), SReturn(2)}, MaxInner),
        post \in SeqsUpTo({SDealloc(1, 1), SDealloc(2, 1)}, 1)}

\* goto inside branches nested up to two deep
GotoStmts == {SDealloc(1, 1), SGoto}
GotoInner == {SIf(COther, th, <<>>, FALSE) : th \in SeqsUpTo(GotoStmts, MaxInner)}
GotoBodies ==
    {<<SIf(COther, th, el.b, el.he)>> :
        th \in SeqsUpTo(GotoStmts \cup GotoInner, MaxInner),
        el \in {[b |-> <<>>, he |-> FALSE]}
               \cup {[b |-> b, he |-> TRUE] : b \in SeqsUpTo(GotoStmts, 1)}}

\* q = alloc(); [p = <number>;] if (p != 0) { .. } [p = <number>;]
NotzeroBodies ==
    {<<SAlloc(2, 1)>> \o pre \o <<SIf(CNe0(1), th, <<>>, FALSE)>> \o post :
        pre \in SeqsUpTo({SAssign(1, "num"), SAssign(1, "null")}, 1),
        th \in SeqsUpTo({SReturn(0), SDealloc(2, 1)}, 1),
        post \in SeqsUpTo({SAssign(1, "num")}, 1)}

\* `if` statements nested in then-blocks (side 1) or else-blocks (side 2)
\* around the block inner
RECURSIVE Nested(_, _)
Nested(sides, inner) ==
    IF sides = <<>> THEN inner
    ELSE IF sides[1] = 1
    THEN <<SIf(COther, Nested(Tail(sides), inner), <<>>, FALSE)>>
    ELSE <<SIf(COther, <<>>, Nested(Tail(sides), inner), TRUE)>>

\* nesting up to the ceiling of checkScope and beyond it, and `if` statements
\* in a row
DeepBodies ==
    {Nested(sides, inner) : sides \in SeqsUpTo({1, 2}, recursiveLimit),
                            inner \in {<<>>, <<SAlloc(1, 1)>>}}
    \cup {[k \in 1..n |-> SIf(COther, <<>>, <<>>, FALSE)] : n \in 1..(recursiveLimit + 1)}

\* p = alloc(); then a call of a function unknown to the library, directly or
\* at the end of a then-block; then p is assigned, or the function returns
Calls ==
    {SCall(v, hb, nr) : v \in {0, 1}, hb \in BOOLEAN,
                        nr \in {"returns", "unknown", "noreturn"}}

UsageBodies ==
    {<<SAlloc(1, 1)>> \o u \o post :
        u \in {<<c>> : c \in Calls} \cup {<<SIf(COther, <<c>>, <<>>, FALSE)>> : c \in Calls},
        post \in SeqsUpTo({SAssign(1, "null"), SAlloc(1, 2), SReturn(0)}, 1)}

\* if (c) { p = alloc(); } and then assignments to p, in the same block or
\* in the then-block of a later `if`
CondStmts ==
    {SAssign(1, "null"), SAlloc(1, 2)}
    \cup {SIf(COther, th, <<>>, FALSE) :
             th \in SeqsUpTo({SAssign(1, "null"), SAlloc(1, 1)}, MaxInner)}

CondBodies ==
    {<<SIf(COther, <<SAlloc(1, 1)>>, <<>>, FALSE)>> \o rest : rest \in SeqsUpTo(CondStmts, 2)}

\* [p = alloc(); or if (c) { p = alloc(); }] then an if/else whose branches
\* deallocate p, hand it to a smart pointer, assign it or pass it to an
\* unknown function, at the level of the function block or inside the
\* then-block of another `if`; then a return or a deallocation
JoinStmts == {SDealloc(1, 1), SSmart(1, 1), SAssign(1, "null"), SCall(1, FALSE, "returns")}
JoinIfs ==
    {SIf(COther, th, el, TRUE) : th \in SeqsUpTo(JoinStmts, 1), el \in SeqsUpTo(JoinStmts, 1)}

JoinBodies ==
    {first \o x \o post :
        first \in {<<>>, <<SAlloc(1, 1)>>, <<SIf(COther, <<SAlloc(1, 1)>>, <<>>, FALSE)>>},
        x \in {<<j>> : j \in JoinIfs} \cup {<<SIf(COther, <<j>>, <<>>, FALSE)>> : j \in JoinIfs},
        post \in SeqsUpTo({SReturn(0), SDealloc(1, 1)}, 1)}

\* [p = alloc();] T*& r = p; then p is allocated by an assignment or in the
\* condition of an `if`; then `if` statements and returns
RefIfs == {SIf(CAllocNe0(1, 1), th, <<>>, FALSE) : th \in SeqsUpTo({SReturn(0)}, 1)}
RefBodies ==
    {pre \o <<SRef(1)>> \o mid \o post :
        pre \in SeqsUpTo({SAlloc(1, 1)}, 1),
        mid \in SeqsUpTo({SAlloc(1, 1)} \cup RefIfs, 1),
        post \in SeqsUpTo({SReturn(0), SIf(COther, <<>>, <<>>, FALSE)}, 2)}

\* an `if` whose condition has a known value, with and without else, before
\* and after statements on p
KnownStmts == {SAlloc(1, 1), SDealloc(1, 1), SReturn(0)}

KnownBodies ==
    {pre \o <<SIf(CKnown(val), th, el, he)>> \o post :
        pre \in SeqsUpTo({SAlloc(1, 1)}, 1),
        val \in BOOLEAN,
        th \in SeqsUpTo(KnownStmts, 1),
        el \in SeqsUpTo(KnownStmts, 1),
        he \in BOOLEAN,
        post \in SeqsUpTo({SDealloc(1, 1)}, 1)}

\* return p; return *p; return q; return; with p allocated, deallocated,
\* deallocated in one branch, or aliased by a reference before an allocator
\* allocates it through &p
RetBodies ==
    {pre \o <<r>> :
        pre \in {<<SAlloc(1, 1)>>, <<SAlloc(1, 1), SDealloc(1, 1)>>, <<SDealloc(1, 1)>>,
                 <<SAlloc(1, 1), SAlloc(2, 1), SDealloc(1, 1)>>,
                 <<SAlloc(1, 1), SIf(COther, <<SDealloc(1, 1)>>, <<>>, FALSE)>>,
                 <<SRef(1), SOutAlloc(1, 1), SDealloc(1, 1)>>},
        r \in {SReturn(0), SReturn(1), SReturnDeref(1), SReturn(2)}}

\* return, throw (outside and inside a try block), break and continue, at the
\* level of the function block or in a then-block, after allocations of p and
\* q and before further statements
ThrowsIn(outer) ==
    {SThrow(rv, in \o outer) : rv \in {0, 1}, in \in {<<>>, <<"eTry">>}}
JumpsIn(outer) ==
    ThrowsIn(outer) \cup {SReturn(0), SReturn(1), SBreak("break"), SBreak("continue")}
JumpPre ==
    {<<SAlloc(1, 1)>>, <<SAlloc(1, 1), SAlloc(2, 1)>>, <<SAlloc(1, 1), SDealloc(1, 1)>>,
     <<SIf(COther, <<SAlloc(1, 1)>>, <<>>, FALSE)>>}
JumpPost == SeqsUpTo({SAlloc(1, 2), SDealloc(1, 1)}, 1)
JumpBodies ==
    {pre \o <<j>> \o post :
        pre \in JumpPre, j \in JumpsIn(<<"eFunction">>), post \in JumpPost}
    \cup {pre \o <<SIf(COther, <<j>> \o post, <<>>, FALSE)>> \o post2 :
             pre \in JumpPre, j \in JumpsIn(<<"eIf", "eFunction">>) \cup ThrowsIn(<<"eIf", "eTry", "eFunction">>),
             post \in JumpPost, post2 \in SeqsUpTo({SReturn(0)}, 1)}

\* p and q allocated (q possibly in a then-block, or passed to an unknown
\* function), then a smart pointer takes p with a deleter
DeleterBodies ==
    {<<SAlloc(1, f)>> \o other \o <<SSmartDeleter(1, d)>> \o post :
        f \in Families,
        other \in {<<>>, <<SAlloc(2, 1)>>, <<SIf(COther, <<SAlloc(2, 1)>>, <<>>, FALSE)>>,
                   <<SAlloc(2, 1), SCall(2, FALSE, "returns")>>},
        d \in {"unchecked", "nodealloc"},
        post \in SeqsUpTo({SReturn(0)}, 1)}

\* allocation through an out-parameter, of a p that is untracked, Allocated
\* (with or without a possible usage, or conditionally) or Deallocated
OutBodies ==
    {pre \o <<SOutAlloc(1, f)>> \o post :
        pre \in {<<>>, <<SAlloc(1, 1)>>, <<SAlloc(1, 1), SCall(1, FALSE, "returns")>>,
                 <<SAlloc(1, 1), SCall(1, TRUE, "returns")>>,
                 <<SAlloc(1, 1), SDealloc(1, 1)>>, <<SAlloc(2, 1)>>,
                 <<SIf(COther, <<SAlloc(1, 1)>>, <<>>, FALSE)>>},
        f \in Families,
        post \in SeqsUpTo({SReturn(0), SDealloc(1, 1)}, 1)}

\* p = new T; p = new T[n]; p = alloc(); or nothing, perhaps q = new T; then
\* delete p; or delete [] p; then another delete, a return, or nothing
DeleteBodies ==
    {pre \o other \o <<SDelete(1, ad)>> \o post :
        pre \in {<<>>} \cup {<<SAlloc(1, f)>> : f \in {NEW_SINGLE, NEW_ARRAY, 1}},
        other \in SeqsUpTo({SAlloc(2, NEW_SINGLE)}, 1),
        ad \in BOOLEAN,
        post \in SeqsUpTo({SDelete(1, FALSE), SDelete(1, TRUE), SReturn(0)}, 1)}

\* q is declared and allocated in the then- or the else-block of an `if`,
\* in which q or p of the function block are deallocated or passed on, p being
\* allocated before the `if` or not
InnerBlocks ==
    {<<SDecl(2), SAlloc(2, 1)>> \o post :
        post \in SeqsUpTo({SDealloc(2, 1), SDealloc(1, 1), SCall(2, FALSE, "returns"),
                           SAlloc(1, 2)}, 1)}

DeclBodies ==
    {pre \o <<i>> :
        pre \in SeqsUpTo({SAlloc(1, 1)}, 1),
        i \in {SIf(COther, b, <<>>, FALSE) : b \in InnerBlocks}
              \cup {SIf(COther, <<>>, b, TRUE) : b \in InnerBlocks}
              \cup {SIf(COther, <<SDealloc(1, 1)>>, b, TRUE) : b \in InnerBlocks}}

\* p allocated, allocated and passed to an unknown function, or allocated
\* in a then-block; then `if ((p = g()) != 0)` with g an allocator or not
CondAssignBodies ==
    {pre \o <<SIf(CAllocNe0(1, f), th, <<>>, FALSE)>> :
        pre \in {<<SAlloc(1, 1)>>, <<SAlloc(1, 1), SCall(1, FALSE, "returns")>>,
                 <<SIf(COther, <<SAlloc(1, 1)>>, <<>>, FALSE)>>,
                 <<SIf(COther, <<SAlloc(1, 1), SCall(1, FALSE, "returns")>>, <<>>, FALSE)>>},
        f \in {0, 1},
        th \in SeqsUpTo({SDealloc(1, 1), SCall(1, FALSE, "returns")}, 1)}

\* one statement of each kind for the runs on several functions
Singles == {<<SRef(1)>>, <<SThrow(0, <<"eFunction">>)>>, <<SBreak("break")>>,
            <<SDelete(1, FALSE)>>, <<SDecl(1)>>}

Bodies ==
    StraightBodies \cup BranchBodies \cup ReallocBodies \cup GotoBodies \cup NotzeroBodies
    \cup DeepBodies \cup CondBodies \cup JoinBodies \cup RefBodies \cup JumpBodies
    \cup DeleterBodies \cup RetBodies \cup KnownBodies \cup DeleteBodies
    \cup DeclBodies \cup CondAssignBodies

InitFor(S, L) ==
    /\ scopes \in S
    /\ checkLibrary \in L
    /\ fn = 1
    /\ stack = <<NewFrame(<<>>, EmptyVarInfo, {}, 0)>>
    /\ diags = <<>>
    /\ gotoSeen = {}
    /\ thrown = FALSE

\* --check-library is off unless asked for
InitWith(S) == InitFor(S, {FALSE})

Init ==
    \/ InitWith({<<b>> : b \in Bodies})
    \/ InitFor({<<b>> : b \in UsageBodies \cup OutBodies}, BOOLEAN)

Spec == Init /\ [][Next]_vars

\* check() on two function scopes with the same body
InitTwice == InitWith({<<b, b>> : b \in Bodies})

SpecTwice == InitTwice /\ [][Next]_vars

\* check() on three function scopes: body a, another body b, and a again
SeveralFirst == DeepBodies \cup NotzeroBodies \cup SeqsUpTo(StraightStmts, 2) \cup Singles
SeveralSecond ==
    {<<SAlloc(1, 1)>>, <<SAssign(1, "num")>>, <<SAlloc(2, 1), SReturn(0)>>, <<SDealloc(1, 1), SGoto>>,
     Nested([k \in 1..recursiveLimit |-> 1], <<>>)}

InitSeveral == InitWith({<<a, b, a>> : a \in SeveralFirst, b \in SeveralSecond})

SpecSeveral == InitSeveral /\ [][Next]_vars

\* bodies for termination: goto and deallocations in then-blocks nested two
\* deep, with or without else, nesting up to the ceiling and beyond, and
\* single statements
LiveInner == {SIf(COther, th, <<>>, FALSE) : th \in SeqsUpTo(GotoStmts, 1)}
LiveBodies ==
    {<<SIf(COther, th, el.b, el.he)>> \o post :
        th \in SeqsUpTo(GotoStmts \cup LiveInner, MaxInner),
        el \in {[b |-> <<>>, he |-> FALSE]}
               \cup {[b |-> b, he |-> TRUE] : b \in SeqsUpTo(GotoStmts, 1)},
        post \in SeqsUpTo({SDealloc(1, 1)}, 1)}
    \cup DeepBodies \cup SeqsUpTo(StraightStmts, 1) \cup Singles

InitLive == InitWith({<<b>> : b \in LiveBodies})

\* the analysis is one sequential computation: it takes its next step as long
\* as there is one
SpecLive == InitLive /\ [][Next]_vars /\ WF_vars(Next)

-----------------------------------------------------------------------------
(* Properties *)

Tag(d) == [fn |-> 1] @@ d
Only(body) == scopes = <<body>>

\* C3: for `p = alloc_f(); dealloc_g(p);` with g another nonzero family than f
\* the whole analysis reports exactly one diagnostic, a Mismatch at the
\* deallocator call (no Leak at function exit).
C3_MismatchScenario ==
    \A f \in Families, g \in Families :
        (Done /\ f # g /\ Only(<<SAlloc(1, f), SDealloc(1, g)>>))
            => diags = <<Tag(mismatchError(<<2>>, <<1>>, 1))>>

C3_Witness == Done /\ Only(<<SAlloc(1, 1), SDealloc(1, 2)>>) /\ Len(diags) = 1

\* C5: for `p = alloc_f(); return;` exactly one Leak for p is reported, at the
\* `return`, and none at the closing brace of the function.
C5_LeakAtReturn ==
    \A f \in Families :
        (Done /\ Only(<<SAlloc(1, f), SReturn(0)>>)) => diags = <<Tag(leakError(<<2>>, 1))>>

C5_Witness == Done /\ Only(<<SAlloc(1, 1), SReturn(0)>>) /\ Len(diags) = 1

ScenarioD == <<SAlloc(1, 1), SIf(COther, <<SDealloc(1, 1), SAssign(1, "null")>>, <<>>, FALSE)>>

\* C6 as stated: for `p = alloc(); if (cond) { free(p); p = nullptr; }` followed
\* by the end of the function the analysis reports nothing.
C6_Original == (Done /\ Only(ScenarioD)) => diags = <<>>

\* C6 amended: for that body the analysis reports exactly one diagnostic, a
\* Leak for p at the closing brace of the function (p is still Allocated in
\* the state of the path that skips the branch).
C6_LeakAtExit == (Done /\ Only(ScenarioD)) => diags = <<Tag(leakError(<<3>>, 1))>>

C6_Witness == Done /\ Only(ScenarioD) /\ Len(diags) = 1

ReallocIdiom ==
    <<SAlloc(1, 1), SRealloc(1, 1, 1), SIf(CFailed(1), <<SReturn(2)>>, <<>>, FALSE), SDealloc(1, 1)>>

\* C7: for `p = alloc(); p = realloc(p, n); if (!p) return old; free(p);` no
\* diagnostic about p is reported at any time of the analysis.
C7_ReallocIdiom == Only(ReallocIdiom) => \A k \in 1..Len(diags) : diags[k].var # 1

C7_Witness == Done /\ Only(ReallocIdiom) /\ diags = <<>>

\* statement s reads or writes variable v
Touches(s, v) ==
    /\ s.k \in {"assign", "alloc", "realloc", "dealloc", "smart", "delete", "outalloc"}
    /\ s.v = v \/ (s.k = "realloc" /\ s.a = v)

\* statement s makes the analysis forget records: it clears the state, or it
\* is a reference declaration, which erases the variable it aliases
Forgets(s) ==
    \/ s.k \in {"return", "throw", "break", "ref"}
    \/ s.k = "smart" /\ s.deleter = "unchecked"

\* statement s allocates or assigns variable v (an allocator that allocates
\* through &v included)
Assigns(s, v) == s.k \in {"assign", "alloc", "realloc", "outalloc"} /\ s.v = v

\* the statements of the function block between i and j are no branches and
\* no allocations or assignments of v
NoAssignBetween(v, i, j) ==
    \A m \in (i + 1)..(j - 1) : Body[m].k \notin {"if", "goto"} /\ ~Assigns(Body[m], v)

\* v is Allocated with family g by statement k and untouched up to statement i
AllocatedBefore(v, g, i) ==
    \E k \in 1..(i - 1) :
        /\ Body[k] = SAlloc(v, g)
        /\ \A m \in (k + 1)..(i - 1) :
               Body[m].k \notin {"if", "goto"} /\ ~Forgets(Body[m]) /\ ~Touches(Body[m], v)

\* no statement before statement i touches v
UntouchedBefore(v, i) ==
    \A m \in 1..(i - 1) : Body[m].k \notin {"if", "goto"} /\ ~Touches(Body[m], v)

\* the invocation for the function block is about to handle the deallocation
\* Body[j] of v, the second after Body[i]
SecondDealloc(v, i, j) ==
    /\ Scanning /\ Len(stack) = 1 /\ Top.bp = <<>> /\ Top.i = j
    /\ i < j
    /\ Body[j].k = "dealloc" /\ Body[j].v = v
    /\ Body[i] = Body[j]

\* the step reports one diagnostic, a DoubleFree of v at statement j, and
\* leaves v Deallocated
DoubleFreeAt(v, i, j) ==
    /\ Len(diags') = Len(diags) + 1
    /\ SubSeq(diags', 1, Len(diags)) = diags
    /\ LET d == diags'[Len(diags')]
       IN  d.kind = "DoubleFree" /\ d.var = v /\ d.tok = <<j>> /\ d.fn = fn
    /\ stack'[1].varInfo.alloctype[v].status = "DEALLOC"

\* a step reports a Leak only for a variable whose record is Allocated
LeakOnlyOfAllocated ==
    \A k \in (Len(diags) + 1)..Len(diags') :
        diags'[k].kind = "Leak"
            => /\ Has(Top.varInfo, diags'[k].var)
               /\ Top.varInfo.alloctype[diags'[k].var].status = "ALLOC"

MismatchingDealloc(v) ==
    /\ Scanning /\ Stmt(Top).k = "dealloc" /\ Stmt(Top).v = v
    /\ Has(Top.varInfo, v)
    /\ Top.varInfo.alloctype[v].type \notin {0, Stmt(Top).f}

\* C2 as stated: a deallocation of a tracked variable whose family is nonzero
\* and differs from the family of the deallocator reports Mismatch and
\* nothing else, whatever the status of the record.
C2_Original ==
    [][\A v \in VarIds :
        MismatchingDealloc(v)
            => diags' = Report(<<mismatchError(Tok(Top), Top.varInfo.alloctype[v].allocTok, v)>>)]_vars

\* C2 amended: a deallocation of a tracked variable whose family is nonzero
\* and differs from the family of the deallocator reports exactly one
\* diagnostic: Mismatch (and the record is removed) when the record is
\* Allocated, DoubleFree when it is Deallocated, Reallocated or
\* ExternallyOwned; it never reports a Leak.
C2_MismatchOrDoubleFree ==
    [][\A v \in VarIds :
        MismatchingDealloc(v)
            => LET var == Top.varInfo.alloctype[v]
               IN  IF var.status = "ALLOC"
                   THEN /\ diags' = Report(<<mismatchError(Tok(Top), var.allocTok, v)>>)
                        /\ ~Has(stack'[Len(stack)].varInfo, v)
                   ELSE diags' = Report(<<doubleFreeError(Tok(Top), var.allocTok, v)>>)]_vars

C2_Witness ==
    /\ Done
    /\ Only(<<SAlloc(1, 1), SSmart(1, 1), SDealloc(1, 2)>>)
    /\ diags = <<Tag(doubleFreeError(<<3>>, <<2>>, 1))>>

\* both branches of the `if` of the parent invocation are done and the join
\* is about to be computed
MergeStep ==
    /\ Len(stack) >= 2 /\ Top.st = "ret" /\ Top.res
    /\ LET p == stack[Len(stack) - 1]
       IN  (p.st = "then" /\ ~Stmt(p).he) \/ p.st = "else"

\* the state before the `if`, the two post-branch copies and the merged state
OldInfo == stack[Len(stack) - 1].varInfo
Copy1 == IF stack[Len(stack) - 1].st = "then" THEN Top.varInfo ELSE stack[Len(stack) - 1].varInfo1
Copy2 == IF stack[Len(stack) - 1].st = "then" THEN stack[Len(stack) - 1].varInfo2 ELSE Top.varInfo
MergedInfo == stack'[Len(stack) - 1].varInfo

IsAllocated(vi, v) == Has(vi, v) /\ vi.alloctype[v].status = "ALLOC"
IsManaged(vi, v) == Has(vi, v) /\ managed(vi.alloctype[v])

\* the end of a branch block reports no Leak of a variable declared outside
\* of it
NoLeakAtBranchEnd ==
    (Len(stack) >= 2 /\ Top.st = "scan" /\ AtEnd(Top))
        => \A k \in (Len(diags) + 1)..Len(diags') :
               diags'[k].kind = "Leak" => DeclBlock(diags'[k].var) = Top.start

\* C4 as stated: a variable without a record before the `if` that is
\* Allocated in exactly one of the two post-branch copies is conditionally
\* allocated and Allocated in the merged state, and neither the end of a
\* branch nor the join reports a Leak.
C4_Original ==
    [][/\ \A v \in VarIds :
            (/\ MergeStep
             /\ ~Has(OldInfo, v)
             /\ IsAllocated(Copy1, v) # IsAllocated(Copy2, v))
                => /\ v \in MergedInfo.conditionalAlloc
                   /\ IsAllocated(MergedInfo, v)
                   /\ diags' = diags
       /\ NoLeakAtBranchEnd]_vars

\* C4 amended: a variable without a record before the `if` that is Allocated
\* in one of the two post-branch copies and has no record in the other one is
\* conditionally allocated and Allocated in the merged state, and neither the
\* end of a branch nor the join reports a Leak.
C4_ConditionalAlloc ==
    [][/\ \A v \in VarIds :
            (/\ MergeStep
             /\ ~Has(OldInfo, v)
             /\ \/ IsAllocated(Copy1, v) /\ ~Has(Copy2, v)
                \/ IsAllocated(Copy2, v) /\ ~Has(Copy1, v))
                => /\ v \in MergedInfo.conditionalAlloc
                   /\ IsAllocated(MergedInfo, v)
                   /\ diags' = diags
       /\ NoLeakAtBranchEnd]_vars

C4_Witness ==
    /\ Only(<<SIf(COther, <<>>, <<SAlloc(1, 1)>>, TRUE)>>)
    /\ stack # <<>> /\ Top.st = "scan" /\ Top.i = 2
    /\ 1 \in Top.varInfo.conditionalAlloc
    /\ IsAllocated(Top.varInfo, 1)
    /\ diags = <<>>

\* C8 as stated: after a goto no step reports a diagnostic for a variable
\* that had a record in some invocation of the function analysis when the
\* goto was reached.
C8_Original ==
    [][\A k \in (Len(diags) + 1)..Len(diags') : diags'[k].var \notin gotoSeen]_vars

\* the top invocation handles an allocation of v: an allocating assignment,
\* as a statement or in the condition of an `if`, or an allocation through
\* an out-parameter
AllocationEvent(v) ==
    /\ Scanning
    /\ \/ Stmt(Top).k \in {"alloc", "realloc", "outalloc"} /\ Stmt(Top).v = v
       \/ Stmt(Top).k = "if" /\ Stmt(Top).c.ck = "allocne0" /\ Stmt(Top).c.v = v

\* no step turns a managed record of an invocation into an Allocated one but
\* an allocation of the variable, or the join that takes it from a copy
InPlaceOnlyByAllocation ==
    \A k \in 1..Len(stack), v \in VarIds :
        (/\ k <= Len(stack')
         /\ stack'[k].start = stack[k].start
         /\ IsManaged(stack[k].varInfo, v)
         /\ IsAllocated(stack'[k].varInfo, v))
            => \/ k = Len(stack) /\ AllocationEvent(v)
               \/ k = Len(stack) - 1 /\ MergeStep

\* the join takes an Allocated record from a post-branch copy
MergeKeepsStatus ==
    MergeStep
        => \A v \in VarIds :
             IsAllocated(MergedInfo, v) => IsAllocated(Copy1, v) \/ IsAllocated(Copy2, v)

\* the copies that the condition scan of the `if` hands to the then-branch
\* and to the else-branch
ThenCopies == {stack'[Len(stack)].varInfo1, stack'[Len(stack) + 1].varInfo}
ElseCopies == {stack'[Len(stack)].varInfo2}

\* the step enters the then-branch of an `if` (it does not raise the limit error)
IfStep == Scanning /\ Stmt(Top).k = "if" /\ Len(stack') = Len(stack) + 1

\* the variable that the realloc result v was reallocated from, or -1
ReallocedFrom(vi, v) == IF Has(vi, v) THEN vi.alloctype[v].reallocedFromType ELSE -1

\* C9 as stated: a managed record becomes Allocated only by an allocation of
\* the variable: not in place, not in the copies the condition scan makes
\* for the branches, and not in the join.
C9_Original ==
    [][/\ InPlaceOnlyByAllocation
       /\ MergeKeepsStatus
       /\ IfStep => \A v \in VarIds, c \in ThenCopies \cup ElseCopies :
                        IsManaged(Top.varInfo, v) => ~IsAllocated(c, v)]_vars

\* C9 amended: a managed record becomes Allocated in place only by an
\* allocation of the variable, and the join takes an Allocated record from a
\* post-branch copy; the condition scan never turns a Deallocated or
\* ExternallyOwned record into an Allocated one in a branch copy, and it turns
\* a Reallocated record of v back to Allocated only when the condition
\* compares with zero the variable that holds the result of the reallocation
\* of v, and only in the copy for the branch taken when that variable is zero.
C9_ManagedToAllocated ==
    [][/\ InPlaceOnlyByAllocation
       /\ MergeKeepsStatus
       /\ IfStep => \A v \in VarIds, c \in ThenCopies \cup ElseCopies :
                        (IsManaged(Top.varInfo, v) /\ IsAllocated(c, v))
                            => /\ Top.varInfo.alloctype[v].status = "REALLOC"
                               /\ ReallocedFrom(Top.varInfo, Stmt(Top).c.v) = v
                               /\ \/ Stmt(Top).c.ck = "failed" /\ c \in ThenCopies
                                  \/ Stmt(Top).c.ck = "ne0" /\ c \in ElseCopies]_vars

C9_Witness ==
    /\ Len(stack) = 2
    /\ stack[1].st = "then"
    /\ IsManaged(stack[1].varInfo, 1)
    /\ stack[1].varInfo.alloctype[1].status = "REALLOC"
    /\ IsAllocated(stack[1].varInfo1, 1)

\* the diagnostics reported for function scope k
DiagsOf(k) ==
    LET ds == SelectSeq(diags, LAMBDA d : d.fn = k)
    IN  [n \in 1..Len(ds) |-> Diag(ds[n].kind, ds[n].var, ds[n].tok, ds[n].from)]

\* C10: two function scopes with the same body get the same sequence of
\* diagnostics.
C10_SameDiagnostics == Done => DiagsOf(1) = DiagsOf(2)

C10_Witness ==
    /\ Done
    /\ scopes[1] = <<SAlloc(2, 1), SIf(CNe0(1), <<SReturn(0)>>, <<>>, FALSE), SAssign(1, "num")>>
    /\ Len(scopes) = 2
    /\ Len(DiagsOf(2)) = 2

-----------------------------------------------------------------------------
(* The recursion ceiling *)

Max(S) == CHOOSE x \in S : \A y \in S : y <= x

\* the number of nested checkScope invocations that block blk asks for
RECURSIVE Depth(_)
Depth(blk) ==
    1 + Max({0} \cup {Depth(blk[n].th) : n \in {m \in 1..Len(blk) : blk[m].k = "if"}}
            \cup {Depth(blk[n].el) : n \in {m \in 1..Len(blk) : blk[m].k = "if" /\ blk[m].he}})

\* C11: at most recursiveLimit checkScope invocations are nested, and the
\* counter of an invocation is its nesting depth (the function block has 1),
\* whatever the number of `if` statements in a row; the InternalError is
\* thrown only for a body that asks for more nested invocations than
\* recursiveLimit, so a body that asks for exactly recursiveLimit is analysed
\* to the end, and a body of nested `if` statements that asks for more is
\* never analysed to the end.
C11_RecursionLimit ==
    /\ Len(stack) <= recursiveLimit
    /\ \A k \in 1..Len(stack) : stack[k].recursiveCount = k
    /\ thrown => Depth(Body) > recursiveLimit
    /\ (Done /\ Body \in DeepBodies /\ Depth(Body) > recursiveLimit) => thrown

C11_Witness ==
    /\ Done /\ ~thrown
    /\ Only(Nested(<<1, 2, 1>>, <<SAlloc(1, 1)>>))
    /\ Depth(Body) = recursiveLimit

-----------------------------------------------------------------------------
(* Several function scopes *)

\* C12 as stated: when the analysis of a function scope has thrown the
\* InternalError, the function scopes behind it are analysed all the same: a
\* scope with the body `p = alloc();` gets its Leak.
C12_Original ==
    Done => \A k \in 1..Len(scopes) :
                scopes[k] = <<SAlloc(1, 1)>>
                    => \E n \in 1..Len(diags) : diags[n].fn = k /\ diags[n].kind = "Leak"

-----------------------------------------------------------------------------
(* The copies of the branches *)

\* an invocation that waits for a branch keeps its state, the copy for the
\* else-branch and its known-nonzero set
ParentUntouched ==
    \A k \in 1..(Len(stack) - 1) :
        (k < Len(stack') /\ stack'[k].start = stack[k].start)
            => /\ stack'[k].varInfo = stack[k].varInfo
               /\ stack'[k].varInfo2 = stack[k].varInfo2
               /\ stack'[k].notzero = stack[k].notzero
               /\ stack'[k].conditionalAlloc = stack[k].conditionalAlloc

\* the then-branch starts on the first copy of the condition scan
ThenStartsOnCopy ==
    (IfStep /\ ~thrown')
        => LET cond == Stmt(Top).c
               \* an allocation inside the condition is made before the copies
               c == conditionCopies(stack'[Len(stack)].varInfo, Top.notzero,
                                    IF cond.ck = "allocne0" THEN CNe0(cond.v) ELSE cond)
           IN  /\ stack'[Len(stack) + 1].varInfo = c.varInfo1
               /\ stack'[Len(stack)].varInfo2 = c.varInfo2
               /\ cond.ck # "allocne0" => stack'[Len(stack)].varInfo = Top.varInfo

\* the else-branch starts on the second copy of the condition scan
ElseStartsOnCopy ==
    (/\ Len(stack) >= 2 /\ Len(stack') = Len(stack)
     /\ stack[Len(stack) - 1].st = "then" /\ stack'[Len(stack) - 1].st = "else")
        => /\ stack'[Len(stack)].varInfo = stack[Len(stack) - 1].varInfo2
           /\ stack'[Len(stack)].notzero = stack[Len(stack) - 1].notzero

\* C13: the then-branch and the else-branch are analysed on their own copies
\* of the state behind the condition scan: the else-branch starts on the
\* second copy whatever the then-branch analysis did, and the state of the
\* waiting invocation does not change while a branch is analysed.
C13_BranchCopies ==
    [][ParentUntouched /\ ThenStartsOnCopy /\ ElseStartsOnCopy]_vars

C13_Witness ==
    /\ Len(stack) = 2
    /\ stack[1].st = "else"
    /\ Top.i = 1 /\ Top.st = "scan"
    /\ Top.varInfo = stack[1].varInfo2
    /\ stack[1].varInfo1 # stack[1].varInfo2
    /\ IsAllocated(stack[1].varInfo1, 1) /\ ~Has(Top.varInfo, 1)
    /\ Len(BlockAt(Body, Top.bp)) > 0

\* the step is one where variable v, Allocated and unmanaged, is up for a
\* report: v is assigned (not conditionally allocated, right side not reading
\* v), the function returns without v, or the function block ends
ReportSituation(v) ==
    /\ stack # <<>> /\ Top.st = "scan"
    /\ IsAllocated(Top.varInfo, v)
    /\ v \notin Top.varInfo.conditionalAlloc
    /\ \/ /\ ~AtEnd(Top)
          /\ Stmt(Top).k \in {"assign", "alloc"}
          /\ Stmt(Top).v = v
          /\ v \notin Top.conditionalAlloc
       \/ /\ ~AtEnd(Top)
          /\ Stmt(Top).k = "return"
          /\ Stmt(Top).rv # v
          /\ v \notin Top.varInfo.referenced
       \/ /\ AtEnd(Top)
          /\ Top.start = <<>>
          /\ v \notin Top.varInfo.referenced

\* the diagnostics about v that the step adds
Emitted(v) ==
    LET new == SubSeq(diags', Len(diags) + 1, Len(diags'))
    IN  [n \in {n \in 1..Len(new) : new[n].var = v} |-> new[n].kind]

EmittedOnly(v, kind) ==
    \E n \in 1..Len(diags') : DOMAIN Emitted(v) = {n - Len(diags)} /\ diags'[n].kind = kind

\* C14 as stated: a recorded possible usage replaces the Leak by a
\* ConfigurationInfo, whatever the setting and the usage kind
C14_Original ==
    [][\A v \in VarIds : ReportSituation(v) =>
          IF v \in DOMAIN Top.varInfo.possibleUsage
          THEN EmittedOnly(v, "ConfigurationInfo")
          ELSE EmittedOnly(v, "Leak")]_vars

\* C14: when an Allocated, unmanaged variable is up for a report at a
\* reassignment, a return or the end of the function, exactly a Leak is
\* emitted if no possible usage is recorded for it; if one is recorded, no
\* Leak is emitted, and exactly a ConfigurationInfo is emitted when the
\* library-completeness option is on, the usage is Used and the called
\* function has no body; otherwise nothing is emitted about the variable.
C14_LeakOrConfigurationInfo ==
    [][\A v \in VarIds : ReportSituation(v) =>
          IF v \notin DOMAIN Top.varInfo.possibleUsage
          THEN EmittedOnly(v, "Leak")
          ELSE LET functionUsage == Top.varInfo.possibleUsage[v]
               IN  IF checkLibrary /\ functionUsage.usage = "USED"
                                   /\ ~hasBody(functionUsage.tok)
                   THEN EmittedOnly(v, "ConfigurationInfo")
                   ELSE Emitted(v) = << >>]_vars

\* an Allocated variable with a Used possible usage was reported as
\* ConfigurationInfo at the return, another one with the option off was not
C14_Witness ==
    /\ Done
    /\ checkLibrary
    /\ Only(<<SAlloc(1, 1), SCall(1, FALSE, "returns"), SReturn(0)>>)
    /\ diags = <<Tag(Diag("ConfigurationInfo", 1, <<3>>, NoTok))>>

\* C15: no two emitted diagnostics have the same function, kind, variable and
\* triggering token, also in bodies where a then-branch analysis signals
\* abandon and the parent goes on scanning.
C15_Original ==
    \A m \in 1..Len(diags), n \in 1..Len(diags) :
        (m # n /\ diags[m].fn = diags[n].fn /\ diags[m].kind = diags[n].kind
               /\ diags[m].var = diags[n].var)
            => diags[m].tok # diags[n].tok

\* C16: the diagnostics of a function do not depend on the functions analysed
\* before it: in <<a, b, a>> the third function scope gets the diagnostics
\* of the first, whatever b is.
C16_Original == Done => DiagsOf(3) = DiagsOf(1)

\* the order of the tokens of a body: a block's tokens come after the `if`
\* that holds it
RECURSIVE Before(_, _)
Before(a, b) ==
    IF b = <<>> THEN FALSE
    ELSE IF a = <<>> THEN TRUE
    ELSE IF a[1] # b[1] THEN a[1] < b[1]
    ELSE Before(Tail(a), Tail(b))

\* no invocation's scan position moves back, and it moves forward whenever
\* the invocation is scanning again after a step that changed it
ScanAdvances ==
    \A k \in 1..Len(stack) :
        (k <= Len(stack') /\ fn' = fn /\ stack'[k].start = stack[k].start) =>
            /\ ~Before(Tok(stack'[k]), Tok(stack[k]))
            /\ (stack'[k].st = "scan" /\ stack'[k] # stack[k])
                   => Before(Tok(stack[k]), Tok(stack'[k]))

\* C17: the analysis of every body comes to an end (every invocation has
\* returned or the recursion-limit error was raised), and the scan position
\* of every invocation strictly advances, also when the parent goes on after
\* a then-branch analysis that signalled abandon.
C17_Terminates == <>Done /\ [][ScanAdvances]_vars

\* after an abandon of the then-branch analysis the invocation of the
\* function block scans the then-block itself and is at its goto
C17_Witness ==
    /\ Only(<<SIf(COther, <<SIf(COther, <<SDealloc(1, 1)>>, <<>>, FALSE), SGoto>>, <<>>, FALSE)>>)
    /\ Len(stack) = 1
    /\ Top.st = "scan"
    /\ Top.start = <<>>
    /\ Tok(Top) = <<1, 1, 2>>

\* the step is an assignment to v whose right side does not read v, with v
\* Allocated
AssignsAllocated(v) ==
    /\ Scanning
    /\ Stmt(Top).k \in {"assign", "alloc", "realloc"}
    /\ Stmt(Top).v = v
    /\ Stmt(Top).k = "realloc" => Stmt(Top).a # v
    /\ IsAllocated(Top.varInfo, v)

\* C18: at an assignment to an Allocated v whose right side does not read v,
\* a Leak is emitted (a ConfigurationInfo may take its place when a possible
\* usage is recorded) if v is not in the conditionally-allocated set of the
\* analysis state at that point, and no Leak is emitted if v is in that set,
\* also when an `if` merged earlier in the same block put it there.
C18_Original ==
    [][\A v \in VarIds : AssignsAllocated(v) =>
          IF v \in Top.varInfo.conditionalAlloc
          THEN Emitted(v) = << >>
          ELSE v \notin DOMAIN Top.varInfo.possibleUsage => EmittedOnly(v, "Leak")]_vars

\* the step is a simple assignment to v
AssignmentTo(v) ==
    /\ Scanning
    /\ Stmt(Top).k \in {"assign", "alloc", "realloc"}
    /\ Stmt(Top).v = v

\* after the step v has a fresh Allocated record of the family of the
\* allocation on the right side, or no record if there is no allocation
FreshOrNone(v) ==
    LET after == stack'[Len(stack)].varInfo
    IN  IF Stmt(Top).k \in {"alloc", "realloc"}
        THEN /\ IsAllocated(after, v)
             /\ after.alloctype[v].type = Stmt(Top).f
             /\ after.alloctype[v].allocTok = Tok(Top)
             /\ v \notin after.conditionalAlloc
        ELSE ~Has(after, v)

\* the right side of the assignment reads v
RhsReads(v) == Stmt(Top).k = "realloc" /\ Stmt(Top).a = v

EventOnUntracked(v, k) ==
    /\ Scanning
    /\ Stmt(Top).k = k
    /\ Stmt(Top).v = v
    /\ ~Has(Top.varInfo, v)

InBothCopies(v) == Has(Copy1, v) /\ Has(Copy2, v)

\* v has a possible usage in both post-branch copies
UsageInBothCopies(v) == v \in DOMAIN Copy1.possibleUsage /\ v \in DOMAIN Copy2.possibleUsage

\* C21 as stated: where the two post-branch copies both have a record of v,
\* the merged state has the record of the else-branch copy, and likewise
\* for the possible usage.
C21_Original ==
    [][MergeStep => \A v \in VarIds :
          /\ InBothCopies(v) =>
                Has(MergedInfo, v) /\ MergedInfo.alloctype[v] = Copy2.alloctype[v]
          /\ UsageInBothCopies(v) =>
                /\ v \in DOMAIN MergedInfo.possibleUsage
                /\ MergedInfo.possibleUsage[v] = Copy2.possibleUsage[v]]_vars

\* the else-branch copy has a managed record of v, the then-branch copy an
\* unmanaged one, and v was conditionally allocated when the invocation
\* started: the join erases v from the then-branch copy
ElseDisposed(v) ==
    /\ v \in stack[Len(stack) - 1].conditionalAlloc
    /\ IsManaged(Copy2, v)
    /\ ~IsManaged(Copy1, v)

\* C21: where the two post-branch copies both have a record of v, the merged
\* state has the record of the then-branch copy (the insertion keeps the keys
\* already present), and likewise for the possible usage; unless the join
\* has erased v from the then-branch copy, and then the merged state has
\* what the else-branch copy has.
C21_FirstInsertWins ==
    [][MergeStep => \A v \in VarIds :
          LET from == IF InBothCopies(v) /\ ElseDisposed(v) THEN Copy2 ELSE Copy1
          IN  /\ InBothCopies(v) =>
                    Has(MergedInfo, v) /\ MergedInfo.alloctype[v] = from.alloctype[v]
              /\ UsageInBothCopies(v) =>
                    /\ v \in DOMAIN MergedInfo.possibleUsage
                    /\ MergedInfo.possibleUsage[v] = from.possibleUsage[v]]_vars

\* behind `p = alloc(); if (c) { free(p); } else { g(p); }` p is Deallocated
\* as in the then-branch copy
C21_Witness ==
    /\ Only(<<SAlloc(1, 1),
               SIf(COther, <<SDealloc(1, 1)>>, <<SCall(1, FALSE, "returns")>>, TRUE)>>)
    /\ Len(stack) = 1
    /\ Tok(Top) = <<3>>
    /\ Top.st = "scan"
    /\ Top.varInfo.alloctype[1].status = "DEALLOC"

\* the step enters the then-branch of an `if` whose condition compares the
\* tracked variable v with zero, as kind ck
ComparesTracked(v, ck) ==
    /\ IfStep
    /\ Stmt(Top).c.ck = ck
    /\ Stmt(Top).c.v = v
    /\ Has(Top.varInfo, v)

\* the copies the two branches start with
ThenCopy == stack'[Len(stack) + 1].varInfo
ElseCopy == stack'[Len(stack)].varInfo2

\* C22 as stated: the compared variable has no record in either branch copy.
C22_Original ==
    [][\A v \in VarIds :
          (ComparesTracked(v, "ne0") \/ ComparesTracked(v, "failed"))
              => ~Has(ThenCopy, v) /\ ~Has(ElseCopy, v)]_vars

\* C22: a comparison for success against a tracked v removes v from the
\* else-branch copy and leaves the then-branch copy as the state before the
\* `if`; a comparison for failure removes v from the then-branch copy and
\* leaves the else-branch copy as the state before the `if`.
C22_FailureBranchErased ==
    [][\A v \in VarIds :
          /\ ComparesTracked(v, "ne0") =>
                ~Has(ElseCopy, v) /\ ThenCopy = Top.varInfo
          /\ ComparesTracked(v, "failed") =>
                ~Has(ThenCopy, v) /\ ElseCopy = Top.varInfo]_vars

\* `p = alloc(); q = realloc(p); if (q != 0) { return; }`: the then-branch
\* has reported the Leak of q
C22_Witness ==
    /\ Done
    /\ Only(<<SAlloc(1, 1), SRealloc(2, 1, 1), SIf(CNe0(2), <<SReturn(0)>>, <<>>, FALSE)>>)
    /\ \E n \in 1..Len(diags) :
          diags[n].kind = "Leak" /\ diags[n].var = 2 /\ diags[n].tok = <<3, 1, 1>>

\* C23: when the analysis of a branch has returned false, the enclosing
\* invocation clears its state and returns false with the next step, emitting
\* nothing, whichever of the two branches it was.
C23_Original ==
    [][(Len(stack) >= 2 /\ Top.st = "ret" /\ ~Top.res) =>
          /\ Len(stack') = Len(stack) - 1
          /\ stack'[Len(stack')].st = "ret"
          /\ ~stack'[Len(stack')].res
          /\ stack'[Len(stack')].varInfo = EmptyVarInfo
          /\ diags' = diags]_vars

\* C24: a variable that is conditionally allocated in the state before an
\* `if` and whose record is managed at the end of one branch is, behind the
\* join, not conditionally allocated and has a managed record, whether it
\* became conditionally allocated before the block was entered or inside it.
C24_Original ==
    [][MergeStep => \A v \in VarIds :
          (v \in OldInfo.conditionalAlloc /\ (IsManaged(Copy1, v) \/ IsManaged(Copy2, v)))
              => /\ v \notin MergedInfo.conditionalAlloc
                 /\ IsManaged(MergedInfo, v)]_vars

\* statement s, an `if` with its blocks included, only allocates, assigns and
\* deallocates variables other than v: it does not mention v, and it has no
\* return, goto or call of an unknown function
RECURSIVE LeavesAlone(_, _)
LeavesAlone(s, v) ==
    IF s.k = "if"
    THEN /\ s.c.v # v
         /\ \A n \in 1..Len(s.th) : LeavesAlone(s.th[n], v)
         /\ \A n \in 1..Len(s.el) : LeavesAlone(s.el[n], v)
    ELSE s.k \in {"assign", "alloc", "realloc", "dealloc", "smart"} /\ ~Touches(s, v)

\* C25: a variable that is conditionally allocated before an `if` whose
\* condition and branches do not mention it is conditionally allocated
\* behind the join as well, with the same record.
C25_Original ==
    [][MergeStep => \A v \in VarIds :
          (/\ v \in OldInfo.conditionalAlloc
           /\ Has(OldInfo, v)
           /\ LeavesAlone(Stmt(stack[Len(stack) - 1]), v))
              => /\ v \in MergedInfo.conditionalAlloc
                 /\ Has(MergedInfo, v)
                 /\ MergedInfo.alloctype[v] = OldInfo.alloctype[v]]_vars


\* the reference declaration of the function block, when there is one
HasRef == \E i \in 1..Len(Body) : Body[i].k = "ref"
RefAt == CHOOSE i \in 1..Len(Body) : Body[i].k = "ref"

\* tok is a `return` statement or the closing brace of a block
IsExit(tok) ==
    LET bp == SubSeq(tok, 1, Len(tok) - 1)
        i == tok[Len(tok)]
    IN  \/ i = Len(BlockAt(Body, bp)) + 1
        \/ BlockAt(Body, bp)[i].k = "return"

\* C26: once `T*& r = v;` has recorded v as aliased by reference, no Leak
\* for v is emitted at any later return or scope exit of the function,
\* including those that come after the merge of a later if/else (v is
\* allocated in the condition of an `if` and assigned by no statement of the
\* function block, so that nothing but a merge touches the aliased set).
C26_Original ==
    (Len(scopes) = 1 /\ HasRef /\ \A i \in 1..Len(Body) : Body[i].k # "alloc")
        => \A k \in 1..Len(diags) :
               ~(/\ diags[k].kind = "Leak"
                 /\ diags[k].var = Body[RefAt].v
                 /\ Before(<<RefAt>>, diags[k].tok)
                 /\ IsExit(diags[k].tok))


\* a `return` that does not return v is next, v is Allocated and not aliased
ReturnSituation(v) ==
    /\ Scanning
    /\ Stmt(Top).k = "return"
    /\ Stmt(Top).rv # v
    /\ IsAllocated(Top.varInfo, v)
    /\ v \notin Top.varInfo.referenced

\* C27 as stated: at a `return`, every Allocated variable that is neither
\* aliased nor returned gets a diagnostic, a Leak if no possible usage is
\* recorded and a ConfigurationInfo otherwise, the conditionally allocated
\* variables included
C27_Original ==
    [][\A v \in VarIds : ReturnSituation(v) =>
          IF v \in DOMAIN Top.varInfo.possibleUsage
          THEN EmittedOnly(v, "ConfigurationInfo")
          ELSE EmittedOnly(v, "Leak")]_vars

\* C27: at a `return`, for every Allocated variable that is neither aliased
\* nor returned: if it is in the conditionally-allocated set nothing is
\* emitted about it; otherwise exactly a Leak is emitted if no possible usage
\* is recorded, and if one is recorded exactly a ConfigurationInfo is emitted
\* when the library-completeness option is on, the usage is Used and the
\* called function has no body, and nothing else.
C27_ReturnReports ==
    [][\A v \in VarIds : ReturnSituation(v) =>
          IF v \in Top.varInfo.conditionalAlloc
          THEN Emitted(v) = << >>
          ELSE IF v \notin DOMAIN Top.varInfo.possibleUsage
          THEN EmittedOnly(v, "Leak")
          ELSE LET functionUsage == Top.varInfo.possibleUsage[v]
               IN  IF checkLibrary /\ functionUsage.usage = "USED"
                                   /\ ~hasBody(functionUsage.tok)
                   THEN EmittedOnly(v, "ConfigurationInfo")
                   ELSE Emitted(v) = << >>]_vars

\* `if (c) { p = alloc(); } return;` is analysed without any diagnostic: p
\* is conditionally allocated at the return
C27_Witness ==
    /\ Done
    /\ Only(<<SIf(COther, <<SAlloc(1, 1)>>, <<>>, FALSE), SReturn(0)>>)
    /\ diags = << >>


\* a return, throw, break or continue statement is processed
JumpStep == Scanning /\ Stmt(Top).k \in {"return", "throw", "break"}

\* C28: the step that processes a return, a throw, a break or a continue
\* leaves the state of the scanning invocation empty (records, possible
\* usages, conditionally-allocated set, aliased set) and does not abandon:
\* the same invocation goes on scanning behind the statement with its result
\* untouched; an allocation after the statement is tracked again and is
\* reported as a Leak by the normal end of the block.
C28_ClearedNotAbandoned ==
    /\ [][JumpStep =>
            /\ Len(stack') = Len(stack)
            /\ stack'[Len(stack)] = Advance([Top EXCEPT !.varInfo = EmptyVarInfo])
            /\ stack'[Len(stack)].st = "scan"
            /\ stack'[Len(stack)].res = Top.res
            /\ gotoSeen' = gotoSeen /\ thrown' = thrown]_vars
    /\ [](\A j \in JumpsIn(<<"eFunction">>) :
            (Done /\ Only(<<SAlloc(1, 1), SDealloc(1, 1), j, SAlloc(1, 2)>>))
                => /\ diags # << >>
                   /\ diags[Len(diags)] = Tag(leakError(<<5>>, 1)))

\* `p = alloc(); break; p = alloc2();`: nothing is reported at the break, and
\* the second allocation is reported at the end of the function
C28_Witness ==
    /\ Done
    /\ Only(<<SAlloc(1, 1), SBreak("break"), SAlloc(1, 2)>>)
    /\ diags = <<Tag(leakError(<<4>>, 1))>>


\* a throw statement is next; inTry: one of the scopes around it is a try block
ThrowStep(inTry) ==
    /\ Scanning
    /\ Stmt(Top).k = "throw"
    /\ inTry = ("eTry" \in {Stmt(Top).in[k] : k \in 1..Len(Stmt(Top).in)})

\* C29: a throw outside every try block emits exactly what a return with the
\* same operand emits in the same state, and leaves the state a return
\* leaves (empty); a throw inside a try block emits nothing and leaves the
\* state empty.
C29_Original ==
    [][/\ ThrowStep(FALSE) =>
            LET r == ret(Tok(Top), Top.varInfo, FALSE, <<>>, Stmt(Top).rv)
            IN  /\ diags' = Report(r.ds)
                /\ stack' = SetTop(Advance([Top EXCEPT !.varInfo = clear(r.vi)]))
       /\ ThrowStep(TRUE) =>
            /\ diags' = diags
            /\ stack' = SetTop(Advance([Top EXCEPT !.varInfo = EmptyVarInfo]))]_vars


\* a smart pointer takes v with a deleter that has no body to look into
UnresolvedDeleterStep(v) ==
    /\ Scanning
    /\ Stmt(Top).k = "smart"
    /\ Stmt(Top).v = v
    /\ Stmt(Top).deleter = "unchecked"

\* what the state vi says about the variable w
About(vi, w) ==
    [record |-> IF Has(vi, w) THEN <<vi.alloctype[w]>> ELSE << >>,
     usage |-> IF w \in DOMAIN vi.possibleUsage THEN <<vi.possibleUsage[w]>> ELSE << >>,
     conditional |-> w \in vi.conditionalAlloc,
     referenced |-> w \in vi.referenced]

\* C30: when a smart pointer takes v with a deleter that cannot be checked
\* for a deallocator, the step emits no diagnostic, removes the record of v
\* and leaves record, possible usage and set memberships of every other
\* variable as they were.
C30_Original ==
    [][\A v \in VarIds : UnresolvedDeleterStep(v) =>
          /\ diags' = diags
          /\ Len(stack') = Len(stack)
          /\ ~Has(stack'[Len(stack)].varInfo, v)
          /\ \A w \in VarIds \ {v} :
                 About(stack'[Len(stack)].varInfo, w) = About(Top.varInfo, w)]_vars


\* a smart pointer with a default or resolved deleter takes v
OwnedStep(v) ==
    /\ Scanning
    /\ Stmt(Top).k = "smart"
    /\ Stmt(Top).v = v
    /\ Stmt(Top).deleter # "unchecked"

\* the state of the scanning invocation after a step that keeps it on top
After == stack'[Len(stack)].varInfo

\* C31 as stated: after the construction v has a record with status OWNED
\* and the family of the deleter, whether or not v had a record before
C31_Original ==
    [][\A v \in VarIds : OwnedStep(v) =>
          /\ Has(After, v)
          /\ After.alloctype[v].status = "OWNED"
          /\ After.alloctype[v].type = Stmt(Top).f]_vars

\* C31: a smart pointer with a default or resolved deleter that takes v
\* - sets the record of v to OWNED with the family and token of the deleter
\*   and emits nothing, when v has an unmanaged record of that family or of
\*   family 0;
\* - emits a Mismatch and erases v, when v has an unmanaged record of
\*   another nonzero family;
\* - emits a DoubleFree and sets the status to OWNED, keeping the family,
\*   when the record of v is managed already;
\* - does nothing when v has no record.
\* No step emits a Leak for a variable whose record is OWNED, and a
\* deallocation of a variable whose record is OWNED emits exactly a
\* DoubleFree.
C31_OwnedIfTracked ==
    [][/\ \A v \in VarIds : OwnedStep(v) =>
            IF ~Has(Top.varInfo, v)
            THEN After = Top.varInfo /\ diags' = diags
            ELSE LET var == Top.varInfo.alloctype[v]
                 IN  IF managed(var)
                     THEN /\ EmittedOnly(v, "DoubleFree")
                          /\ After.alloctype[v] = [var EXCEPT !.status = "OWNED"]
                     ELSE IF var.type # Stmt(Top).f /\ var.type # 0
                     THEN EmittedOnly(v, "Mismatch") /\ ~Has(After, v)
                     ELSE /\ diags' = diags
                          /\ After.alloctype[v].status = "OWNED"
                          /\ After.alloctype[v].type = Stmt(Top).f
                          /\ After.alloctype[v].allocTok = Tok(Top)
       /\ \A k \in (Len(diags) + 1)..Len(diags') :
            (diags'[k].kind = "Leak" /\ Has(Top.varInfo, diags'[k].var))
                => Top.varInfo.alloctype[diags'[k].var].status # "OWNED"
       /\ \A v \in VarIds :
            (/\ Scanning /\ Stmt(Top).k = "dealloc" /\ Stmt(Top).v = v
             /\ Has(Top.varInfo, v) /\ Top.varInfo.alloctype[v].status = "OWNED")
                => EmittedOnly(v, "DoubleFree")]_vars

\* `sp(p); free(p);` on an untracked p: no record after the construction,
\* and no diagnostic at all
C31_Witness ==
    /\ Done
    /\ Only(<<SSmart(1, 1), SDealloc(1, 1)>>)
    /\ diags = << >>


\* the assignment `v = realloc_f(a, ..)` with v another variable than a is next
ReallocStep(v, a) ==
    /\ Scanning
    /\ Stmt(Top).k = "realloc"
    /\ Stmt(Top).v = v /\ Stmt(Top).a = a
    /\ v # a

\* C32: `v = realloc_f(a, ..)` with v other than a emits a Mismatch against a
\* exactly when a has a record of a nonzero family other than f; the record
\* of a, if any, gets status REALLOC, and none is created for a; v gets a
\* fresh Allocated record of family f that is realloced from a.
C32_ReallocAssignment ==
    [][\A v \in VarIds, a \in VarIds : ReallocStep(v, a) =>
          LET mismatch == /\ Has(Top.varInfo, a)
                          /\ Top.varInfo.alloctype[a].type \notin {0, Stmt(Top).f}
          IN  /\ mismatch => EmittedOnly(a, "Mismatch")
              /\ ~mismatch => Emitted(a) = << >>
              /\ Has(After, a) = Has(Top.varInfo, a)
              /\ Has(After, a) => /\ After.alloctype[a].status = "REALLOC"
                                  /\ After.alloctype[a].type = Top.varInfo.alloctype[a].type
              /\ Has(After, v)
              /\ After.alloctype[v] =
                     [AllocInfo(Stmt(Top).f, "ALLOC", Tok(Top)) EXCEPT !.reallocedFromType = a]]_vars

\* `p = alloc_2(); q = realloc_1(p);`: Mismatch against p at the realloc, and
\* the Leak of q at the end of the function
C32_Witness ==
    /\ Done
    /\ Only(<<SAlloc(1, 2), SRealloc(2, 1, 1)>>)
    /\ diags = <<Tag(mismatchError(<<2>>, <<1>>, 1)), Tag(leakError(<<3>>, 2))>>


\* the call `alloc_f(&v)` of an allocator with an out-parameter is next
OutAllocStep(v) == Scanning /\ Stmt(Top).k = "outalloc" /\ Stmt(Top).v = v

\* C33 as stated: the call installs an Allocated record of the allocator's
\* family for v, and when v was Allocated already a Leak or a
\* ConfigurationInfo is emitted at the call
C33_Original ==
    [][\A v \in VarIds : OutAllocStep(v) =>
          /\ IsAllocated(After, v) /\ After.alloctype[v].type = Stmt(Top).f
          /\ IsAllocated(Top.varInfo, v)
                => \/ EmittedOnly(v, "Leak")
                   \/ EmittedOnly(v, "ConfigurationInfo")]_vars

\* C33: the call `alloc_f(&v)` installs an Allocated record of family f for
\* v; when v was Allocated already, exactly a Leak is emitted at the call if
\* no possible usage is recorded for v, and if one is recorded exactly a
\* ConfigurationInfo is emitted when the library-completeness option is on,
\* the usage is Used and the called function has no body, and nothing
\* otherwise; when v was not Allocated nothing is emitted.
C33_OutParamAllocation ==
    [][\A v \in VarIds : OutAllocStep(v) =>
          /\ IsAllocated(After, v) /\ After.alloctype[v].type = Stmt(Top).f
          /\ After.alloctype[v].allocTok = Tok(Top)
          /\ IF ~IsAllocated(Top.varInfo, v) THEN diags' = diags
             ELSE IF v \notin DOMAIN Top.varInfo.possibleUsage
             THEN EmittedOnly(v, "Leak")
             ELSE LET functionUsage == Top.varInfo.possibleUsage[v]
                  IN  IF checkLibrary /\ functionUsage.usage = "USED"
                                      /\ ~hasBody(functionUsage.tok)
                      THEN EmittedOnly(v, "ConfigurationInfo")
                      ELSE diags' = diags]_vars

\* `p = alloc(); alloc_2(&p);`: the Leak of the first allocation at the
\* call, the Leak of the second one at the end of the function
C33_Witness ==
    /\ Done
    /\ Only(<<SAlloc(1, 1), SOutAlloc(1, 2)>>)
    /\ diags = <<Tag(leakError(<<2>>, 1)), Tag(leakError(<<3>>, 1))>>

\* a call statement passes v to a function the library knows nothing about
CallStep(v) == Scanning /\ Stmt(Top).k = "call" /\ Stmt(Top).v = v

\* some step reports a Leak of v
LeakEmitted(v) == \E n \in DOMAIN Emitted(v) : Emitted(v)[n] = "Leak"

\* C34: passing a tracked v to a function without allocator or deallocator
\* metadata emits nothing at the call, records a possible usage USED for v
\* and leaves the record of v as it was; passing an untracked v records
\* nothing about v; and no step reports a Leak of v while v has a possible
\* usage
C34_Original ==
    [][\A v \in VarIds :
          /\ CallStep(v) =>
                /\ diags' = diags
                /\ IF Has(Top.varInfo, v)
                   THEN /\ Has(After, v)
                        /\ After.alloctype[v] = Top.varInfo.alloctype[v]
                        /\ v \in DOMAIN After.possibleUsage
                        /\ After.possibleUsage[v].usage = "USED"
                   ELSE About(After, v) = About(Top.varInfo, v)
          /\ (~Done /\ LeakEmitted(v)) => v \notin DOMAIN Top.varInfo.possibleUsage]_vars

\* C34 for a call that is not the last statement of a block that does not
\* return: nothing is emitted at the call, a tracked v gets the possible
\* usage USED and keeps its record, nothing is recorded about an untracked
\* v, and no step reports a Leak of a variable that has a possible usage
C34_CallThatReturns ==
    [][\A v \in VarIds :
          /\ (CallStep(v) /\ ~(Top.i = Len(BlockAt(Body, Top.bp)) /\ Stmt(Top).nr = "noreturn")) =>
                /\ diags' = diags
                /\ IF Has(Top.varInfo, v)
                   THEN /\ Has(After, v)
                        /\ After.alloctype[v] = Top.varInfo.alloctype[v]
                        /\ v \in DOMAIN After.possibleUsage
                        /\ After.possibleUsage[v].usage = "USED"
                   ELSE About(After, v) = About(Top.varInfo, v)
          /\ (~Done /\ LeakEmitted(v)) => v \notin DOMAIN Top.varInfo.possibleUsage]_vars

\* p = alloc(); g(p); and the end of the function: no Leak of p
C34_Witness ==
    /\ Done
    /\ Only(<<SAlloc(1, 1), SCall(1, FALSE, "returns")>>)
    /\ ~checkLibrary
    /\ diags = << >>

\* a `return` statement while v has a record with status DEALLOC
DeallocatedAtReturn(v) ==
    /\ Scanning
    /\ Stmt(Top).k = "return"
    /\ Has(Top.varInfo, v)
    /\ Top.varInfo.alloctype[v].status = "DEALLOC"

\* C35: at a `return` that returns or dereferences a Deallocated v exactly a
\* DeallocatedReturn is emitted for v, and a `return` that does not mention a
\* Deallocated v emits nothing for v
C35_Original ==
    [][\A v \in VarIds : DeallocatedAtReturn(v) =>
          IF PtrUsage(Stmt(Top).rv, v) # "NONE"
          THEN EmittedOnly(v, "DeallocatedReturn")
          ELSE DOMAIN Emitted(v) = {}]_vars

\* C35 for a v that is not aliased by a reference: a `return` that returns or
\* dereferences a Deallocated v emits exactly a DeallocatedReturn for v, one
\* that does not mention it emits nothing for v; for an aliased v nothing is
\* emitted
C35_DeallocatedReturn ==
    [][\A v \in VarIds : DeallocatedAtReturn(v) =>
          IF PtrUsage(Stmt(Top).rv, v) # "NONE" /\ v \notin Top.varInfo.referenced
          THEN EmittedOnly(v, "DeallocatedReturn")
          ELSE DOMAIN Emitted(v) = {}]_vars

\* p = alloc(); free(p); return *p;
C35_Witness ==
    /\ Done
    /\ Only(<<SAlloc(1, 1), SDealloc(1, 1), SReturnDeref(1)>>)
    /\ diags = <<Tag(deallocReturnError(<<3>>, <<2>>, 1))>>

\* the condition of the `if` statement s has a known value
IsKnown(s) == s.k = "if" /\ (skipIfBlock(s.c) \/ skipElseBlock(s.c))

\* the block of an `if` with a known condition that cannot be reached
RECURSIVE Unreachable(_, _)
Unreachable(body, bp) ==
    /\ Len(bp) >= 2
    /\ LET up == SubSeq(bp, 1, Len(bp) - 2)
           s == BlockAt(body, up)[bp[Len(bp) - 1]]
       IN  \/ skipIfBlock(s.c) /\ bp[Len(bp)] = 1
           \/ skipElseBlock(s.c) /\ bp[Len(bp)] = 2
           \/ Unreachable(body, up)

\* C36: when the condition of an `if` has a known value, no invocation
\* scans the unreachable branch and no diagnostic is reported at a token of
\* it, and the state after the `if` is the state in which the analysis of
\* the reachable branch ended (the state before the `if` when the reachable
\* branch is an else-branch that is not there)
C36_Original ==
    [][/\ \A k \in 1..Len(stack') : ~Unreachable(Body, stack'[k].bp)
       /\ \A n \in 1..Len(diags') : ~Unreachable(Body, SubSeq(diags'[n].tok, 1, Len(diags'[n].tok) - 1))
       /\ (Len(stack) >= 2 /\ Top.st = "ret" /\ Top.res
             /\ stack[Len(stack) - 1].st \in {"then", "else"}
             /\ IsKnown(Stmt(stack[Len(stack) - 1])))
            => MergedInfo = Top.varInfo
       /\ (Scanning /\ IsKnown(Stmt(Top)) /\ skipIfBlock(Stmt(Top).c) /\ ~Stmt(Top).he)
            => After = Top.varInfo]_vars

\* a `delete` statement deallocates v
DeleteStep(v) == Scanning /\ Stmt(Top).k = "delete" /\ Stmt(Top).v = v

\* the family of a delete statement
DeleteFamily(s) == IF s.arrayDelete THEN NEW_ARRAY ELSE NEW_SINGLE

\* C37: `delete v;` has family NEW and `delete [] v;` family NEW_ARRAY; on an
\* Allocated record of the same family the step sets it to DEALLOC and emits
\* nothing, on an Allocated record of the other one of the two it emits
\* exactly a Mismatch; the records of all other variables stay as they
\* are and the invocation scans on behind the statement
C37_Delete ==
    [][\A v \in VarIds : (DeleteStep(v) /\ IsAllocated(Top.varInfo, v)) =>
          LET f == Top.varInfo.alloctype[v].type
              g == DeleteFamily(Stmt(Top))
          IN  /\ NEW_SINGLE # NEW_ARRAY
              /\ f = g => /\ diags' = diags
                          /\ Has(After, v)
                          /\ After.alloctype[v].status = "DEALLOC"
                          /\ After.alloctype[v].type = g
              /\ (f \in {NEW_SINGLE, NEW_ARRAY} /\ f # g) =>
                          /\ Len(diags') = Len(diags) + 1
                          /\ EmittedOnly(v, "Mismatch")
              /\ \A w \in VarIds \ {v} : About(After, w) = About(Top.varInfo, w)
              /\ Len(stack') = Len(stack)
              /\ stack'[Len(stack)].st = "scan"
              /\ stack'[Len(stack)].bp = Top.bp
              /\ stack'[Len(stack)].i = Top.i + 1]_vars

\* p = new T[n]; q = new T; delete p; and the end of the function
C37_Witness ==
    /\ Done
    /\ Only(<<SAlloc(1, NEW_ARRAY), SAlloc(2, NEW_SINGLE), SDelete(1, FALSE)>>)
    /\ diags = <<Tag(mismatchError(<<3>>, <<1>>, 1)), Tag(leakError(<<4>>, 2))>>

\* the invocation on a then- or else-block is at the closing brace
InnerBlockEnd == Len(stack) >= 2 /\ Top.st = "scan" /\ AtEnd(Top)

\* the state the invocation hands back
Returned == stack'[Len(stack)].varInfo

\* C38: at the closing brace of a then- or else-block a diagnostic is
\* reported only for variables declared in that block and only their records
\* are removed; record, possible usage and set memberships of every variable
\* declared in an enclosing block are in the state handed back to the merge
\* as they were
C38_InnerBlockEnd ==
    [][InnerBlockEnd =>
          /\ \A v \in VarIds :
                /\ DOMAIN Emitted(v) # {} => DeclBlock(v) = Top.start
                /\ (Has(Top.varInfo, v) /\ ~Has(Returned, v)) => DeclBlock(v) = Top.start
                /\ DeclBlock(v) # Top.start => About(Returned, v) = About(Top.varInfo, v)
          /\ Len(stack') = Len(stack)
          /\ stack'[Len(stack)].st = "ret" /\ stack'[Len(stack)].res]_vars

\* p = alloc(); if (c) { T *q; q = alloc(); }: Leak of q at the closing
\* brace of the then-block, Leak of p at the end of the function
C38_Witness ==
    /\ Done
    /\ Only(<<SAlloc(1, 1), SIf(COther, <<SDecl(2), SAlloc(2, 1)>>, <<>>, FALSE)>>)
    /\ diags = <<Tag(leakError(<<2, 1, 3>>, 2)), Tag(leakError(<<3>>, 1))>>

\* a deallocator call or a delete statement on v
DeallocStep(v) == Scanning /\ Stmt(Top).k \in {"dealloc", "delete"} /\ Stmt(Top).v = v

\* C39: a deallocator call or a delete on v leaves record, possible usage,
\* conditionally-allocated and aliased membership of every other variable as
\* they were, whether v is deallocated, reported as DoubleFree or Mismatch,
\* or has no record
C39_DeallocFrame ==
    [][\A v \in VarIds : DeallocStep(v) =>
          \A w \in VarIds \ {v} : About(After, w) = About(Top.varInfo, w)]_vars

\* p = new T; q = new T; delete [] p; delete p;: a Mismatch and a delete of
\* the then untracked p, and the Leak of q at the end of the function
C39_Witness ==
    /\ Done
    /\ Only(<<SAlloc(1, NEW_SINGLE), SAlloc(2, NEW_SINGLE), SDelete(1, TRUE), SDelete(1, FALSE)>>)
    /\ diags = <<Tag(mismatchError(<<3>>, <<1>>, 1)), Tag(leakError(<<5>>, 2))>>

\* the keys of the possible usages and the conditionally allocated variables
\* of an analysis state have records
KeysHaveRecords(vi) ==
    /\ DOMAIN vi.possibleUsage \subseteq DOMAIN vi.alloctype
    /\ vi.conditionalAlloc \subseteq DOMAIN vi.alloctype

\* C40: in every state of the analysis, in the state of every invocation and
\* in its two branch copies, each variable with a possible usage and each
\* conditionally allocated variable has a record
C40_KeysHaveRecords ==
    \A k \in 1..Len(stack) :
        /\ KeysHaveRecords(stack[k].varInfo)
        /\ KeysHaveRecords(stack[k].varInfo1)
        /\ KeysHaveRecords(stack[k].varInfo2)

\* p = alloc(); g(p); if ((p = h()) != 0) { g(p); }: scanning the then-block,
\* behind the call, p has a record and a possible usage again
C40_Witness ==
    /\ Only(<<SAlloc(1, 1), SCall(1, FALSE, "returns"),
              SIf(CAllocNe0(1, 1), <<SCall(1, FALSE, "returns")>>, <<>>, FALSE)>>)
    /\ Len(stack) = 2
    /\ Top.st = "scan" /\ AtEnd(Top)
    /\ DOMAIN Top.varInfo.possibleUsage = {1}
    /\ DOMAIN Top.varInfo.alloctype = {1}

=============================================================================
